---------------------------- MODULE Spec2Model ----------------------------
(***************************************************************************)
(* Model of survey_kit_data's fixed-width layout-script parser             *)
(* (bls/utilities/sas_input_reader.py) and of the dictionary parser and    *)
(* record splitter of census/cps_asec.py, of the cache bookkeeping         *)
(* (cache_manager.py), the download (load.py) and the API wrapper          *)
(* (api_factory.py).                                                       *)
(*                                                                         *)
(* Text is modelled as a sequence of one-character strings; a file is a    *)
(* sequence of such characters, and readlines() cuts it into lines that    *)
(* keep their "\n".  Positions in the operators below are 1-based          *)
(* (Python's are 0-based); 0 stands for Python's -1 ("not found").         *)
(***************************************************************************)
EXTENDS Integers, Sequences, FiniteSets, TLC

VARIABLES
    script,     \* the layout script on disk: its text
    intent,     \* how the script was written: dialect, shape, declarations
    call,       \* the last call made and its arguments
    ret,        \* what that call returned or raised
    uc_text,    \* comment stripper: the text the lines were read from
    uc_style,   \* comment stripper: <<start_comment, end_comment>>
    uc_lines,   \* comment stripper: the current list of lines
    uc_first,   \* comment stripper: the list returned by the first call
    uc_calls,   \* comment stripper: number of calls of _uncomment_sas so far
    sd_source,  \* split_dat: the bytes of the combined source file
    sd_linesep, \* split_dat: the platform's line separator (os.linesep)
    sd_pc,      \* split_dat: "idle", "open" (in the loop) or "closed"
    sd_lines,   \* split_dat: the lines the source iterator has still to yield
    sd_out,     \* split_dat: the bytes written to each destination so far
    dd_dict,    \* parse_data_dictionary: the text of the dictionary file
    dd_intent,  \* parse_data_dictionary: how the dictionary was written
    dd_call,    \* parse_data_dictionary: the last call's arguments
    dd_ret,     \* parse_data_dictionary: what that call returned and wrote
    fs_nodes,   \* cache directory: the <<path, kind>> of the files and folders in it
    fs_meta,    \* cache directory: the text of each hidden hash file, by its path
    cm_mgrs,    \* FileCacheManager: the managers constructed
    cm_saved,   \* FileCacheManager: per save path, the requests whose hash was saved
    cm_asked,   \* FileCacheManager: the last is_cached() call and what it returned
    ld_pc,      \* load_from_url: where the call stands
    ld_call,    \* load_from_url: the arguments of the call
    ld_frame,   \* load_from_url: its locals (fcm, path_save, temp_dir, the files)
    ld_ret,     \* load_from_url: what the call returned or raised
    ld_hist,    \* load_from_url: the call before, and the cache as this call found it
    af_log,     \* APIFactory wrapper: the accesses made on it and how each ended
    af_invoked, \* APIFactory wrapper: the calls that reached the wrapped object
    zp_decode,  \* zipfile.ZipInfo._decodeExtra: the function installed
    zp_init,    \* zipfile.ZipFile.__init__: the function installed
    zp_pc,      \* LenientUnzip.__call__: where each invocation stands
    zp_saved    \* LenientUnzip.__call__: _original_decode, _original_zipfile_init of each

uc_vars == <<uc_text, uc_style, uc_lines, uc_first, uc_calls>>
ps_vars == <<script, intent, call, ret>>
sd_vars == <<sd_source, sd_linesep, sd_pc, sd_lines, sd_out>>
dd_vars == <<dd_dict, dd_intent, dd_call, dd_ret>>
fs_vars == <<fs_nodes, fs_meta>>
cm_vars == <<cm_mgrs, cm_saved, cm_asked>>
ld_vars == <<ld_pc, ld_call, ld_frame, ld_ret, ld_hist>>
af_vars == <<af_log, af_invoked>>
zp_vars == <<zp_decode, zp_init, zp_pc, zp_saved>>
io_vars == <<fs_vars, cm_vars, ld_vars, af_vars, zp_vars>>
vars == <<script, intent, call, ret, uc_text, uc_style, uc_lines, uc_first, uc_calls,
          sd_source, sd_linesep, sd_pc, sd_lines, sd_out, dd_dict, dd_intent, dd_call, dd_ret,
          io_vars>>

-----------------------------------------------------------------------------
(* Bounds of the model *)

\* longest text (in characters) the comment stripper is run on
MaxText == 6
\* number of successive calls of _uncomment_sas on one list of lines
MaxCalls == 2
\* most declarations in a script's INPUT block
MaxDecls == 2
\* largest byte position (and width) a declaration names
MaxPos == 3
\* largest N of a scale suffix .N
MaxDecimals == 1
\* largest declared logical record length
MaxLrecl == 5
\* largest beginline argument
MaxBegin == 2
\* widest column of the layouts data files are read with
MaxWidth == 3
\* largest skip_rows argument
MaxSkipRows == 1
\* largest n_rows argument
MaxRows == 1

-----------------------------------------------------------------------------
(* Python str / list primitives *)

Min(S) == CHOOSE x \in S : \A y \in S : x <= y

\* s[p:] and s[:p] with 1-based p
Drop(s, n) == SubSeq(s, n + 1, Len(s))
Take(s, n) == SubSeq(s, 1, n)

\* sub occurs in s at position p
StartsAt(s, sub, p) ==
    /\ p >= 1
    /\ p + Len(sub) - 1 <= Len(s)
    /\ \A k \in 1..Len(sub) : s[p + k - 1] = sub[k]

\* str.find(sub, start): first position >= p where sub occurs, 0 if none
\* (sub is never empty here)
FindFrom(s, sub, p) ==
    LET hits == {q \in p..Len(s) : s[q] = sub[1] /\ StartsAt(s, sub, q)}
    IN  IF hits = {} THEN 0 ELSE Min(hits)

\* str.find(sub)
Find(s, sub) == FindFrom(s, sub, 1)

\* sub in s
Contains(s, sub) == Find(s, sub) # 0

\* s.replace(old, new, 1)
ReplaceFirst(s, old, new) ==
    LET p == Find(s, old)
    IN  IF p = 0 THEN s
        ELSE Take(s, p - 1) \o new \o Drop(s, p + Len(old) - 1)

\* s.replace(old, new): every non-overlapping occurrence, left to right
RECURSIVE ReplaceAll(_, _, _)
ReplaceAll(s, old, new) ==
    LET p == Find(s, old)
    IN  IF p = 0 THEN s
        ELSE Take(s, p - 1) \o new
                 \o ReplaceAll(Drop(s, p + Len(old) - 1), old, new)

\* f.readlines(): the lines of a text, each keeping its "\n"
RECURSIVE ReadLines(_)
ReadLines(text) ==
    IF text = <<>> THEN <<>>
    ELSE LET p == Find(text, <<"\n">>)
         IN  IF p = 0 THEN <<text>>
             ELSE <<Take(text, p)>> \o ReadLines(Drop(text, p))

\* Python's whitespace, as far as it occurs in a script
Whitespace == {" ", "\t", "\n"}

Max(S) == CHOOSE x \in S : \A y \in S : x >= y

\* the positions of s that hold no whitespace
Inked(s) == {k \in 1..Len(s) : s[k] \notin Whitespace}

\* s.lstrip(), s.rstrip(), s.strip()
LStrip(s) == IF Inked(s) = {} THEN <<>> ELSE Drop(s, Min(Inked(s)) - 1)
RStrip(s) == IF Inked(s) = {} THEN <<>> ELSE Take(s, Max(Inked(s)))
Strip(s)  == IF Inked(s) = {} THEN <<>> ELSE SubSeq(s, Min(Inked(s)), Max(Inked(s)))

\* length of the run of non-whitespace characters s starts with
WordLen(s) ==
    LET blanks == {k \in 1..Len(s) : s[k] \in Whitespace}
    IN  IF blanks = {} THEN Len(s) ELSE Min(blanks) - 1

\* s.split(): the maximal runs of non-whitespace characters, in order
RECURSIVE Split(_)
Split(s) ==
    LET t == LStrip(s)
    IN  IF t = <<>> THEN <<>>
        ELSE <<Take(t, WordLen(t))>> \o Split(Drop(t, WordLen(t)))

Digits == <<"0", "1", "2", "3", "4", "5", "6", "7", "8", "9">>
DigitSet == {Digits[k] : k \in 1..10}
DigitMap == [c \in DigitSet |-> (CHOOSE k \in 1..10 : Digits[k] = c) - 1]
DigitValue(c) == DigitMap[c]

\* s.isdigit()
IsDigit(s) == Len(s) > 0 /\ \A k \in 1..Len(s) : s[k] \in DigitSet

\* int(s) for a string of digits; int() raises ValueError on every other
\* string the scripts modelled here can hold (no sign, no underscore)
RECURSIVE IntOf(_)
IntOf(s) == IF s = <<>> THEN 0
            ELSE 10 * IntOf(Take(s, Len(s) - 1)) + DigitValue(s[Len(s)])

\* str(n) for n >= 0
RECURSIVE StrOfNat(_)
StrOfNat(n) == IF n < 10 THEN <<Digits[n + 1]>>
               ELSE StrOfNat(n \div 10) \o <<Digits[(n % 10) + 1]>>

LowerLetters == <<"a", "b", "c", "d", "e", "f", "g", "h", "i", "j", "k", "l", "m",
                  "n", "o", "p", "q", "r", "s", "t", "u", "v", "w", "x", "y", "z">>
UpperLetters == <<"A", "B", "C", "D", "E", "F", "G", "H", "I", "J", "K", "L", "M",
                  "N", "O", "P", "Q", "R", "S", "T", "U", "V", "W", "X", "Y", "Z">>

UpperMap == [c \in {LowerLetters[k] : k \in 1..26} |->
                 UpperLetters[CHOOSE k \in 1..26 : LowerLetters[k] = c]]
LowerMap == [c \in {UpperLetters[k] : k \in 1..26} |->
                 LowerLetters[CHOOSE k \in 1..26 : UpperLetters[k] = c]]

UpperChar(c) == IF c \in DOMAIN UpperMap THEN UpperMap[c] ELSE c

\* s.upper()
Upper(s) == [k \in 1..Len(s) |-> UpperChar(s[k])]

RECURSIVE Pow10(_)
Pow10(n) == IF n = 0 THEN 1 ELSE 10 * Pow10(n - 1)

RECURSIVE SumAbsWidth(_)
\* sum(abs(c.width) for c in columns)
SumAbsWidth(columns) ==
    IF columns = <<>> THEN 0
    ELSE LET w == columns[Len(columns)].width
         IN  SumAbsWidth(Take(columns, Len(columns) - 1)) + (IF w < 0 THEN -w ELSE w)

-----------------------------------------------------------------------------
(* _uncomment_sas *)

\* the inner while loop (lines 72-80): blank the lines from j on until one
\* holds end_comment, and keep of that line the text after it
\* A mutation of the inner loop: the lines without end_comment are passed
\* over as they are, where the code empties them.
RECURSIVE UncommentCloseNoBlank(_, _, _)
UncommentCloseNoBlank(result, j, end_comment) ==
    IF j > Len(result) THEN result
    ELSE LET end_pos == Find(result[j], end_comment)
         IN  IF end_pos = 0
             THEN UncommentCloseNoBlank(result, j + 1, end_comment)
             ELSE [result EXCEPT
                      ![j] = Drop(result[j], end_pos + Len(end_comment) - 1)]

RECURSIVE UncommentClose(_, _, _)
UncommentClose(result, j, end_comment) ==
    IF j > Len(result) THEN result
    ELSE LET end_pos == Find(result[j], end_comment)
         IN  IF end_pos = 0
             THEN UncommentClose([result EXCEPT ![j] = <<>>], j + 1, end_comment)
             ELSE [result EXCEPT
                      ![j] = Drop(result[j], end_pos + Len(end_comment) - 1)]

\* A mutation of the outer loop: after cutting a comment that opens and
\* closes on one line it moves on to the next line, where the code scans
\* the same line again.
RECURSIVE UncommentLoopNoRescan(_, _, _, _)
UncommentLoopNoRescan(result, i, start_comment, end_comment) ==
    IF i > Len(result) THEN result
    ELSE
      LET line      == result[i]
          start_pos == Find(line, start_comment)
      IN
      IF start_pos = 0
      THEN UncommentLoopNoRescan(result, i + 1, start_comment, end_comment)
      ELSE
        LET end_pos == FindFrom(line, end_comment, start_pos + Len(start_comment))
        IN
        IF end_pos # 0
        THEN LET comment_text == SubSeq(line, start_pos,
                                        end_pos + Len(end_comment) - 1)
             IN  UncommentLoopNoRescan(
                     [result EXCEPT ![i] = ReplaceFirst(line, comment_text, <<>>)],
                     i + 1, start_comment, end_comment)
        ELSE UncommentLoopNoRescan(
                 UncommentClose([result EXCEPT ![i] = Take(line, start_pos - 1)],
                                i + 1, end_comment),
                 i + 1, start_comment, end_comment)

\* the outer while loop (lines 51-82) from line i on
RECURSIVE UncommentLoop(_, _, _, _)
UncommentLoop(result, i, start_comment, end_comment) ==
    IF i > Len(result) THEN result
    ELSE
      LET line      == result[i]
          start_pos == Find(line, start_comment)
      IN
      IF start_pos = 0
      THEN UncommentLoop(result, i + 1, start_comment, end_comment)
      ELSE
        LET end_pos == FindFrom(line, end_comment, start_pos + Len(start_comment))
        IN
        IF end_pos # 0
        THEN \* opens and closes on this line: cut it out, scan the line again
             LET comment_text == SubSeq(line, start_pos,
                                        end_pos + Len(end_comment) - 1)
             IN  UncommentLoop(
                     [result EXCEPT ![i] = ReplaceFirst(line, comment_text, <<>>)],
                     i, start_comment, end_comment)
        ELSE \* runs on into the next lines
             UncommentLoop(
                 UncommentClose([result EXCEPT ![i] = Take(line, start_pos - 1)],
                                i + 1, end_comment),
                 i + 1, start_comment, end_comment)

uncomment_sas(sas_lines, start_comment, end_comment) ==
    UncommentLoop(sas_lines, 1, start_comment, end_comment)

\* the two comment styles parse_sas_script strips (lines 123-124)
BlockStyle == << <<"/", "*">>, <<"*", "/">> >>
StarStyle  == << <<"*">>, <<";">> >>
CommentStyles == {BlockStyle, StarStyle}

-----------------------------------------------------------------------------
(* ColumnSpec and the three declaration dialects *)

\* Optional[...]: None is the empty tuple, a value x is <<x>>
None == <<>>
Some(x) == <<x>>

\* divisor = 10 ** (-decimals), kept exact as the fraction 1/10^decimals;
\* the default 1.0 is 1/1
\* a variant that takes no scale from the decimals
DivisorWhole(decimals) == [num |-> 1, den |-> 1]

Divisor(decimals) == [num |-> 1, den |-> Pow10(decimals)]
DivisorOne == [num |-> 1, den |-> 1]

\* ColumnSpec(varname, width, is_char, divisor)
ColumnSpec(varname, width, is_char, divisor) ==
    [varname |-> varname, width |-> width, is_char |-> is_char, divisor |-> divisor]

\* ColumnSpec(None, -padding, False): a skip region
SkipSpec(padding) == ColumnSpec(None, -padding, FALSE, DivisorOne)

\* what a call gives back: the exception it raised ("" when it returned) and
\* the list it returned
Returned(columns) == [raised |-> "", columns |-> columns]
Raised(exception) == [raised |-> exception, columns |-> <<>>]

\* tokens[i + offset].split(".", 1)[1]
AfterDot(token) == Drop(token, Find(token, <<".">>))
\* format_str.split(".", 1)[0]
BeforeDot(token) == Take(token, Find(token, <<".">>) - 1)

\* A mutation of _parse_at_format's loop: no skip column before the first
\* column (the rule of lines 333-337 of _parse_position_format put here).
RECURSIVE ParseAtLoopNoLeadingGap(_, _, _, _)
ParseAtLoopNoLeadingGap(tokens, i, columns, current_pos) ==
    IF i > Len(tokens) THEN Returned(columns)
    ELSE IF ~StartsAt(tokens[i], <<"@">>, 1)
    THEN ParseAtLoopNoLeadingGap(tokens, i + 1, columns, current_pos)
    ELSE
      LET start_txt == ReplaceAll(tokens[i], <<"@">>, <<>>) IN
      IF ~IsDigit(start_txt) THEN Raised("ValueError")
      ELSE
        LET start_pos == IntOf(start_txt)
            padded    == columns # <<>> /\ start_pos > current_pos
            columns1  == IF padded
                         THEN Append(columns, SkipSpec(start_pos - current_pos))
                         ELSE columns
            pos1      == IF padded THEN start_pos ELSE current_pos
        IN
        IF i + 1 > Len(tokens) THEN Raised("IndexError")
        ELSE
          LET varname == tokens[i + 1]
              is_char == i + 2 <= Len(tokens) /\ tokens[i + 2] = <<"$">>
              offset  == IF is_char THEN 3 ELSE 2
          IN
          IF i + offset > Len(tokens) THEN Raised("IndexError")
          ELSE
            LET format_str ==
                    ReplaceAll(ReplaceAll(tokens[i + offset], <<"F">>, <<>>),
                               <<"C", "H", "A", "R">>, <<>>)
                dotted    == Contains(format_str, <<".">>)
                width_str == IF dotted THEN BeforeDot(format_str) ELSE format_str
            IN
            IF ~IsDigit(width_str) \/ (dotted /\ ~IsDigit(AfterDot(format_str)))
            THEN Raised("ValueError")
            ELSE
              LET width   == IntOf(width_str)
                  divisor == IF dotted THEN Divisor(IntOf(AfterDot(format_str)))
                             ELSE DivisorOne
              IN  ParseAtLoopNoLeadingGap(tokens, i + offset + 1,
                              Append(columns1,
                                     ColumnSpec(Some(varname), width, is_char, divisor)),
                              pos1 + width)

\* _parse_at_format, the while loop from token i on (i is 1-based)
RECURSIVE ParseAtLoop(_, _, _, _)
ParseAtLoop(tokens, i, columns, current_pos) ==
    IF i > Len(tokens) THEN Returned(columns)
    ELSE IF ~StartsAt(tokens[i], <<"@">>, 1)
    THEN ParseAtLoop(tokens, i + 1, columns, current_pos)
    ELSE
      LET start_txt == ReplaceAll(tokens[i], <<"@">>, <<>>) IN
      IF ~IsDigit(start_txt) THEN Raised("ValueError")
      ELSE
        LET start_pos == IntOf(start_txt)
            padded    == start_pos > current_pos
            columns1  == IF padded
                         THEN Append(columns, SkipSpec(start_pos - current_pos))
                         ELSE columns
            pos1      == IF padded THEN start_pos ELSE current_pos
        IN
        IF i + 1 > Len(tokens) THEN Raised("IndexError")
        ELSE
          LET varname == tokens[i + 1]
              is_char == i + 2 <= Len(tokens) /\ tokens[i + 2] = <<"$">>
              offset  == IF is_char THEN 3 ELSE 2
          IN
          IF i + offset > Len(tokens) THEN Raised("IndexError")
          ELSE
            LET format_str ==
                    ReplaceAll(ReplaceAll(tokens[i + offset], <<"F">>, <<>>),
                               <<"C", "H", "A", "R">>, <<>>)
                dotted    == Contains(format_str, <<".">>)
                width_str == IF dotted THEN BeforeDot(format_str) ELSE format_str
            IN
            IF ~IsDigit(width_str) \/ (dotted /\ ~IsDigit(AfterDot(format_str)))
            THEN Raised("ValueError")
            ELSE
              LET width   == IntOf(width_str)
                  divisor == IF dotted THEN Divisor(IntOf(AfterDot(format_str)))
                             ELSE DivisorOne
              IN  ParseAtLoop(tokens, i + offset + 1,
                              Append(columns1,
                                     ColumnSpec(Some(varname), width, is_char, divisor)),
                              pos1 + width)

parse_at_format(tokens) == ParseAtLoop(tokens, 1, <<>>, 1)

\* _parse_width_format, the while loop from token i on
RECURSIVE ParseWidthLoop(_, _, _)
ParseWidthLoop(tokens, i, columns) ==
    IF i > Len(tokens) THEN Returned(columns)
    ELSE
      LET varname == tokens[i]
          is_char == i + 1 <= Len(tokens) /\ tokens[i + 1] = <<"$">>
          offset  == IF is_char THEN 2 ELSE 1
      IN
      IF i + offset > Len(tokens) THEN Raised("IndexError")
      ELSE IF ~IsDigit(tokens[i + offset]) THEN Raised("ValueError")
      ELSE
        LET width    == IntOf(tokens[i + offset])
            offset2  == offset + 1
            has_dec  == i + offset2 <= Len(tokens)
                            /\ Contains(tokens[i + offset2], <<".">>)
        IN
        IF has_dec /\ ~IsDigit(AfterDot(tokens[i + offset2]))
        THEN Raised("ValueError")
        ELSE
          LET divisor == IF has_dec
                         THEN Divisor(IntOf(AfterDot(tokens[i + offset2])))
                         ELSE DivisorOne
              offset3 == IF has_dec THEN offset2 + 1 ELSE offset2
          IN  ParseWidthLoop(tokens, i + offset3,
                             Append(columns,
                                    ColumnSpec(Some(varname), width, is_char, divisor)))

parse_width_format(tokens) == ParseWidthLoop(tokens, 1, <<>>)

\* lines 333-337: the skip column put before a column that starts after the
\* bytes the columns so far cover (none before the first column)
PositionGap(columns, start) ==
    IF columns # <<>> /\ start > SumAbsWidth(columns) + 1
    THEN <<SkipSpec(start - (SumAbsWidth(columns) + 1))>>
    ELSE <<>>

\* _parse_position_format, the while loop from token i on
RECURSIVE ParsePositionLoop(_, _, _)
ParsePositionLoop(tokens, i, columns) ==
    IF i > Len(tokens) THEN Returned(columns)
    ELSE
      LET varname == tokens[i]
          is_char == i + 1 <= Len(tokens) /\ tokens[i + 1] = <<"$">>
          offset  == IF is_char THEN 2 ELSE 1
      IN
      IF i + offset > Len(tokens) THEN Raised("IndexError")
      ELSE IF ~IsDigit(tokens[i + offset]) THEN Raised("ValueError")
      ELSE
        LET start    == IntOf(tokens[i + offset])
            offset2  == offset + 1
            has_end  == i + offset2 <= Len(tokens)
                            /\ IsDigit(ReplaceAll(tokens[i + offset2], <<".">>, <<>>))
        IN
        IF has_end /\ ~IsDigit(tokens[i + offset2]) THEN Raised("ValueError")
        ELSE
          LET end      == IF has_end THEN IntOf(tokens[i + offset2]) ELSE start
              offset3  == IF has_end THEN offset2 + 1 ELSE offset2
              has_dec  == i + offset3 <= Len(tokens)
                              /\ Contains(tokens[i + offset3], <<".">>)
          IN
          IF has_dec /\ ~IsDigit(AfterDot(tokens[i + offset3]))
          THEN Raised("ValueError")
          ELSE
            LET divisor == IF has_dec
                           THEN Divisor(IntOf(AfterDot(tokens[i + offset3])))
                           ELSE DivisorOne
                offset4 == IF has_dec THEN offset3 + 1 ELSE offset3
                width   == end - start + 1
            IN  ParsePositionLoop(tokens, i + offset4,
                    columns \o PositionGap(columns, start)
                        \o <<ColumnSpec(Some(varname), width, is_char, divisor)>>)

parse_position_format(tokens) == ParsePositionLoop(tokens, 1, <<>>)

-----------------------------------------------------------------------------
(* parse_sas_script *)

KwInput == <<"I", "N", "P", "U", "T">>

ErrNoInput  == "ValueError: No INPUT statement found in SAS script"
ErrNoSemi   == "ValueError: No semicolon found to end INPUT statement"
ErrLrecl    == "ValueError: Specified lrecl is shorter than total column width"

\* line 115: [line.replace("\t", " ") for line in sas_lines]
RECURSIVE Untab(_)
Untab(lines) ==
    IF lines = <<>> THEN <<>>
    ELSE <<ReplaceAll(lines[1], <<"\t">>, <<" ">>)>> \o Untab(Tail(lines))

\* line 120: [line.upper() for line in sas_lines]
RECURSIVE UpperLines(_)
UpperLines(lines) ==
    IF lines = <<>> THEN <<>> ELSE <<Upper(lines[1])>> \o UpperLines(Tail(lines))

\* lines 111-124: the lines of the script from beginline on, upper-cased,
\* with both comment styles stripped
StrippedLines(text, beginline) ==
    LET sas_lines == UpperLines(Drop(Untab(ReadLines(text)), beginline - 1))
    IN  uncomment_sas(uncomment_sas(sas_lines, BlockStyle[1], BlockStyle[2]),
                      StarStyle[1], StarStyle[2])

\* first index >= from of a line holding sub, 0 if there is none
FirstLineWith(lines, sub, from) ==
    LET hits == {i \in from..Len(lines) : Contains(lines[i], sub)}
    IN  IF hits = {} THEN 0 ELSE Min(hits)

\* lines 127-131
InputLineIdx(lines) == FirstLineWith(lines, KwInput, 1)

\* lines 137-141
EndLineIdx(lines, input_line_idx) == FirstLineWith(lines, <<";">>, input_line_idx)

\* lines 147-153: the block, with the first INPUT cut out of its first line
\* and the first ";" cut out of its last line
InputBlock(lines, input_line_idx, end_line_idx) ==
    LET fwf_lines == SubSeq(lines, input_line_idx, end_line_idx)
        no_input  == [fwf_lines EXCEPT ![1] = ReplaceFirst(@, KwInput, <<>>)]
    IN  [no_input EXCEPT ![Len(no_input)] = ReplaceFirst(@, <<";">>, <<>>)]

\* line 156: line.replace("$", " $ ").replace("-", " - ")
SpaceOut(line) ==
    ReplaceAll(ReplaceAll(line, <<"$">>, <<" ", "$", " ">>), <<"-">>, <<" ", "-", " ">>)

\* lines 164-165: the tokens of one line, "-" dropped
RECURSIVE CleanTokens(_)
CleanTokens(words) ==
    IF words = <<>> THEN <<>>
    ELSE LET t == Strip(ReplaceAll(words[1], <<"-">>, <<" ">>))
         IN  (IF t = <<>> THEN <<>> ELSE <<t>>) \o CleanTokens(Tail(words))

\* lines 156-165 over the lines of the block (a blank line yields no token)
RECURSIVE Tokenize(_)
Tokenize(fwf_lines) ==
    IF fwf_lines = <<>> THEN <<>>
    ELSE LET line == SpaceOut(fwf_lines[1])
         IN  (IF Strip(line) = <<>> THEN <<>> ELSE CleanTokens(Split(line)))
                 \o Tokenize(Tail(fwf_lines))

\* line 168
HasAtSymbols(tokens) == \E k \in 1..Len(tokens) : Contains(tokens[k], <<"@">>)

\* line 172: [t for t in tokens[1:4] if t != "$"]
RECURSIVE NotDollar(_)
NotDollar(ts) ==
    IF ts = <<>> THEN <<>>
    ELSE (IF ts[1] = <<"$">> THEN <<>> ELSE <<ts[1]>>) \o NotDollar(Tail(ts))

\* lines 171-178
WidthsNotPlaces(tokens) ==
    IF Len(tokens) >= 4
    THEN LET elements_2_4 == NotDollar(SubSeq(tokens, 2, 4))
         IN  /\ Len(elements_2_4) >= 2
             /\ ~IsDigit(ReplaceAll(ReplaceAll(elements_2_4[2], <<".">>, <<>>),
                                    <<"-">>, <<>>))
    ELSE FALSE

\* lines 183-191: which of the three parsers is called
Dialect(tokens) ==
    IF HasAtSymbols(tokens) THEN "at"
    ELSE IF WidthsNotPlaces(tokens) THEN "width"
    ELSE "position"

ParseTokens(tokens) ==
    LET dialect == Dialect(tokens) IN
    CASE dialect = "at"       -> parse_at_format(tokens)
      [] dialect = "width"    -> parse_width_format(tokens)
      [] dialect = "position" -> parse_position_format(tokens)

\* Two mutations of lines 194-209: one appends no trailing skip column, the
\* other lets a declared length shorter than the columns pass.
ReconcileLreclNoPad(columns, lrecl) ==
    IF lrecl = None THEN Returned(columns)
    ELSE IF lrecl[1] < SumAbsWidth(columns) THEN Raised(ErrLrecl)
    ELSE Returned(columns)

ReconcileLreclNoRaise(columns, lrecl) ==
    IF lrecl = None THEN Returned(columns)
    ELSE IF lrecl[1] > SumAbsWidth(columns)
    THEN Returned(Append(columns, SkipSpec(lrecl[1] - SumAbsWidth(columns))))
    ELSE Returned(columns)

\* lines 194-209: lrecl is None or <<n>>
ReconcileLrecl(columns, lrecl) ==
    IF lrecl = None THEN Returned(columns)
    ELSE LET total_width == SumAbsWidth(columns)
         IN  IF lrecl[1] < total_width THEN Raised(ErrLrecl)
             ELSE IF lrecl[1] > total_width
             THEN Returned(Append(columns, SkipSpec(lrecl[1] - total_width)))
             ELSE Returned(columns)

\* what lines 126-191 give: what the dialect parser returned or raised, the
\* parser that ran ("none" when the call raised before choosing one) and
\* the tokens it was given
Parsed(parsed, parser, tokens) ==
    [raised |-> parsed.raised, columns |-> parsed.columns,
     parser |-> parser, tokens |-> tokens]

\* lines 167-191
ParseBlock(tokens) == Parsed(ParseTokens(tokens), Dialect(tokens), tokens)

\* A mutation of lines 137-191: with no terminator at or after the keyword
\* the block runs to the last line, where the code raises.
ParseFromToLastLine(lines, input_line_idx, end_line_idx) ==
    ParseBlock(Tokenize(InputBlock(lines, input_line_idx,
                                   IF end_line_idx = 0 THEN Len(lines)
                                   ELSE end_line_idx)))

\* lines 137-191, once the keyword is found
ParseFrom(lines, input_line_idx, end_line_idx) ==
    IF end_line_idx = 0 THEN Parsed(Raised(ErrNoSemi), "none", <<>>)
    ELSE ParseBlock(Tokenize(InputBlock(lines, input_line_idx, end_line_idx)))

ParseAt(lines, input_line_idx) ==
    IF input_line_idx = 0 THEN Parsed(Raised(ErrNoInput), "none", <<>>)
    ELSE ParseFrom(lines, input_line_idx, EndLineIdx(lines, input_line_idx))

ParseLines(lines) == ParseAt(lines, InputLineIdx(lines))

\* lines 193-211 after lines 126-191
FinishParse(parsed, lrecl) ==
    IF parsed.raised # "" THEN parsed
    ELSE LET done == ReconcileLrecl(parsed.columns, lrecl)
         IN  [parsed EXCEPT !.raised = done.raised, !.columns = done.columns]

parse_sas_script(text, beginline, lrecl) ==
    FinishParse(ParseLines(StrippedLines(text, beginline)), lrecl)

-----------------------------------------------------------------------------
(* read_sas_fwf: decoding a data file with the parsed layout.              *)
(* A cell is a string, a float or null.  Floats are kept exact, as         *)
(* num/den with den a power of ten and no common factor ten (the rounding  *)
(* of Float64 is not modelled).  The call of pl.read_csv at lines 404-414  *)
(* is the library's and its result is overwritten at line 447: it is left  *)
(* out.                                                                    *)

StrCell(text)   == [kind |-> "str", text |-> text, num |-> 0, den |-> 1]
NullCell        == [kind |-> "null", text |-> <<>>, num |-> 0, den |-> 1]

RECURSIVE Normal(_, _)
Normal(num, den) ==
    IF den > 1 /\ num % 10 = 0 THEN Normal(num \div 10, den \div 10)
    ELSE [kind |-> "f64", text |-> <<>>, num |-> num, den |-> den]

\* line 428: line.rstrip('\n\r')
RECURSIVE RStripNewline(_)
RStripNewline(s) ==
    IF s # <<>> /\ s[Len(s)] \in {"\n", "\r"}
    THEN RStripNewline(Take(s, Len(s) - 1)) ELSE s

RECURSIVE RStripLines(_)
RStripLines(lines) ==
    IF lines = <<>> THEN <<>>
    ELSE <<RStripNewline(lines[1])>> \o RStripLines(Tail(lines))

\* lines 418-428: the lines kept; n_rows is None or <<n>>
DataLines(data, skip_rows, n_rows) ==
    LET rest == Drop(ReadLines(data), skip_rows)
    IN  RStripLines(IF n_rows = None THEN rest
                    ELSE Take(rest, IF n_rows[1] < Len(rest) THEN n_rows[1]
                                    ELSE Len(rest)))

Materialized(col) == col.varname # None /\ col.width > 0

\* line 395
RECURSIVE DataColumns(_)
DataColumns(columns) ==
    IF columns = <<>> THEN <<>>
    ELSE (IF Materialized(columns[1]) THEN <<columns[1]>> ELSE <<>>)
             \o DataColumns(Tail(columns))

Abs(n) == IF n < 0 THEN -n ELSE n

\* line[pos:pos + width] with 0-based pos, cut at the end of the line
Slice(line, pos, width) ==
    SubSeq(line, pos + 1, IF pos + width < Len(line) THEN pos + width ELSE Len(line))

\* A mutation of lines 433-442: the cursor is not advanced, every column is
\* cut from the start of the line.
RECURSIVE DecodeLineFromStart(_, _, _, _)
DecodeLineFromStart(line, columns, k, pos) ==
    IF k > Len(columns) THEN <<>>
    ELSE LET col   == columns[k]
             width == Abs(col.width)
             chunk == IF pos < Len(line) THEN Slice(line, pos, width) ELSE <<>>
         IN  (IF Materialized(col) THEN <<Strip(chunk)>> ELSE <<>>)
                 \o DecodeLineFromStart(line, columns, k + 1, pos)

\* Another mutation of lines 433-442: a column that is not materialized
\* does not move the cursor.
RECURSIVE DecodeLineSkipsStay(_, _, _, _)
DecodeLineSkipsStay(line, columns, k, pos) ==
    IF k > Len(columns) THEN <<>>
    ELSE LET col   == columns[k]
             width == Abs(col.width)
             chunk == IF pos < Len(line) THEN Slice(line, pos, width) ELSE <<>>
         IN  (IF Materialized(col) THEN <<Strip(chunk)>> ELSE <<>>)
                 \o DecodeLineSkipsStay(line, columns, k + 1,
                                        IF Materialized(col) THEN pos + width ELSE pos)

\* lines 433-442: the record of one line, from column k on, cursor at pos
RECURSIVE DecodeLine(_, _, _, _)
DecodeLine(line, columns, k, pos) ==
    IF k > Len(columns) THEN <<>>
    ELSE LET col   == columns[k]
             width == Abs(col.width)
             chunk == IF pos < Len(line) THEN Slice(line, pos, width) ELSE <<>>
         IN  (IF Materialized(col) THEN <<Strip(chunk)>> ELSE <<>>)
                 \o DecodeLine(line, columns, k + 1, pos + width)

\* lines 431-444
RECURSIVE Records(_, _)
Records(lines, columns) ==
    IF lines = <<>> THEN <<>>
    ELSE <<DecodeLine(lines[1], columns, 1, 0)>> \o Records(Tail(lines), columns)

\* [rec[i] for rec in records]
RECURSIVE FieldOf(_, _)
FieldOf(records, i) ==
    IF records = <<>> THEN <<>>
    ELSE <<StrCell(records[1][i])>> \o FieldOf(Tail(records), i)

\* position of the series called name in the frame, 0 if there is none
SeriesIdx(frame, name) ==
    IF \E k \in 1..Len(frame) : frame[k].name = name
    THEN CHOOSE k \in 1..Len(frame) : frame[k].name = name
    ELSE 0

\* lines 447-450: the dict {name: values} in insertion order; a name given
\* again keeps its place and takes the later values
RECURSIVE BuildFrame(_, _, _, _)
BuildFrame(frame, data_columns, records, i) ==
    IF i > Len(data_columns) THEN frame
    ELSE LET name   == data_columns[i].varname[1]
             series == [name |-> name, dtype |-> "Utf8", values |-> FieldOf(records, i)]
             at     == SeriesIdx(frame, name)
         IN  BuildFrame(IF at = 0 THEN Append(frame, series)
                        ELSE [frame EXCEPT ![at] = series],
                        data_columns, records, i + 1)

\* digits [. digits] or . digits, after an optional sign: the strings the
\* cast reads as a number, among those the data files here can hold
IsDecimalText(s) ==
    LET body == IF s # <<>> /\ s[1] \in {"-", "+"} THEN Tail(s) ELSE s
        dot  == Find(body, <<".">>)
    IN  IF dot = 0 THEN IsDigit(body)
        ELSE /\ Len(body) > 1
             /\ Take(body, dot - 1) = <<>> \/ IsDigit(Take(body, dot - 1))
             /\ Drop(body, dot) = <<>> \/ IsDigit(Drop(body, dot))

\* .str.strip_chars().cast(pl.Float64, strict=False) of one string
CastFloat(text) ==
    LET s == Strip(text) IN
    IF ~IsDecimalText(s) THEN NullCell
    ELSE LET neg    == s[1] = "-"
             body   == IF s[1] \in {"-", "+"} THEN Tail(s) ELSE s
             dot    == Find(body, <<".">>)
             whole  == IF dot = 0 THEN body ELSE Take(body, dot - 1)
             frac   == IF dot = 0 THEN <<>> ELSE Drop(body, dot)
             num    == IntOf(whole) * Pow10(Len(frac)) + IntOf(frac)
         IN  Normal(IF neg THEN -num ELSE num, Pow10(Len(frac)))

RECURSIVE CastFloats(_)
CastFloats(values) ==
    IF values = <<>> THEN <<>>
    ELSE <<CastFloat(values[1].text)>> \o CastFloats(Tail(values))

\* digits of n, padded with zeros on the left to width w
RECURSIVE Padded(_, _)
Padded(n, w) == IF w = 0 THEN <<>> ELSE Padded(n \div 10, w - 1) \o <<Digits[(n % 10) + 1]>>

RECURSIVE DigitsOfPow10(_)
DigitsOfPow10(den) == IF den = 1 THEN 0 ELSE 1 + DigitsOfPow10(den \div 10)

\* .cast(pl.Utf8) of one float: "25.0", "12.34", "-0.5"
FloatToUtf8(cell) ==
    LET mag == Abs(cell.num) IN
    (IF cell.num < 0 THEN <<"-">> ELSE <<>>)
        \o StrOfNat(mag \div cell.den) \o <<".">>
        \o (IF cell.den = 1 THEN <<"0">>
            ELSE Padded(mag % cell.den, DigitsOfPow10(cell.den)))

\* lines 476-482: some value of the column, written as a string, holds "."
HasDecimals(values) ==
    \E k \in 1..Len(values) :
        values[k].kind = "f64" /\ Contains(FloatToUtf8(values[k]), <<".">>)

\* A mutation of line 466: some value is null, where the code asks for all.
SomeNull(values) == \E k \in 1..Len(values) : values[k].kind = "null"

AllNull(values) == \A k \in 1..Len(values) : values[k].kind = "null"

\* A mutation of lines 473-486: the override is not looked at.
ShouldDivideAuto(values, divisor, skip_decimal_division) ==
    ~HasDecimals(values) /\ divisor # DivisorOne

\* lines 473-486; skip_decimal_division is None or <<bool>>
ShouldDivide(values, divisor, skip_decimal_division) ==
    IF skip_decimal_division = None
    THEN ~HasDecimals(values) /\ divisor # DivisorOne
    ELSE ~skip_decimal_division[1] /\ divisor # DivisorOne

\* pl.col(col_name) * col.divisor
RECURSIVE Scaled(_, _)
Scaled(values, divisor) ==
    IF values = <<>> THEN <<>>
    ELSE <<IF values[1].kind = "f64"
           THEN Normal(values[1].num * divisor.num, values[1].den * divisor.den)
           ELSE values[1]>> \o Scaled(Tail(values), divisor)

ErrStrOnFloat == "InvalidOperationError: str operation on a Float64 column"

\* lines 453-491: the loop over data_columns from the i-th on; out holds the
\* frame and the warnings so far
RECURSIVE ConvertLoop(_, _, _, _)
ConvertLoop(out, data_columns, i, skip_decimal_division) ==
    IF i > Len(data_columns) \/ out.raised # "" THEN out
    ELSE
      LET col == data_columns[i]
          at  == SeriesIdx(out.frame, col.varname[1])
      IN
      IF col.is_char
      THEN ConvertLoop(out, data_columns, i + 1, skip_decimal_division)
      ELSE IF out.frame[at].dtype # "Utf8"
      THEN [out EXCEPT !.raised = ErrStrOnFloat]
      ELSE
        LET floats == CastFloats(out.frame[at].values)
            warned == IF AllNull(floats)
                      THEN Append(out.warnings, col.varname[1]) ELSE out.warnings
            values == IF ShouldDivide(floats, col.divisor, skip_decimal_division)
                      THEN Scaled(floats, col.divisor) ELSE floats
        IN  ConvertLoop(
                [out EXCEPT !.frame[at] = [name |-> col.varname[1],
                                           dtype |-> "Float64", values |-> values],
                            !.warnings = warned],
                data_columns, i + 1, skip_decimal_division)

\* lines 390-496, with the layout parse_sas_script gave
Decode(parsed, data, skip_rows, n_rows, skip_decimal_division) ==
    IF parsed.raised # ""
    THEN [raised |-> parsed.raised, frame |-> <<>>, warnings |-> <<>>]
    ELSE LET data_columns == DataColumns(parsed.columns)
             records == Records(DataLines(data, skip_rows, n_rows), parsed.columns)
         IN  ConvertLoop([raised |-> "",
                          frame |-> BuildFrame(<<>>, data_columns, records, 1),
                          warnings |-> <<>>],
                         data_columns, 1, skip_decimal_division)

read_sas_fwf(data, text, beginline, lrecl, n_rows, skip_rows, skip_decimal_division) ==
    Decode(parse_sas_script(text, beginline, lrecl), data, skip_rows, n_rows,
           skip_decimal_division)

-----------------------------------------------------------------------------
(* The scripts the parser is run on.  A script is written from an intent:  *)
(* a dialect, a list of declarations and a shape (where the keyword, the   *)
(* terminator and comments stand).  The k-th declaration is                *)
(*   position:  NAME [$] start [- end] [.N]     (span = end, 0: no end)    *)
(*   width:     NAME [$] width [.N]             (span = width)             *)
(*   at:        @start NAME [$] w | Fw.d | w.d | CHARw   (span = w)        *)
(* Starts increase along the list; an end is at or after its start and    *)
(* may overlap the next column.  One declaration of a script may carry a   *)
(* scale or a format; none, one or all of them the "$".                    *)

FixedNames == << <<"N", "A", "M", "E">>, <<"A", "G", "E">>, <<"A", "M", "T">> >>
NameOf(k) == IF k <= Len(FixedNames) THEN FixedNames[k] ELSE <<"V">> \o StrOfNat(k)

Dialects == {"at", "width", "position"}

Increasing(f, n) == \A j, k \in 1..n : j < k => f[j] < f[k]

StartsOf(dialect, n) ==
    IF dialect = "width" THEN {[k \in 1..n |-> 0]}
    ELSE {f \in [1..n -> 1..MaxPos] : Increasing(f, n)}

\* position: an end from the start to MaxPos, or none (0); at: a width that
\* keeps the column within MaxPos bytes; width: any width up to MaxPos
SpansOf(dialect, n, starts) ==
    CASE dialect = "position" ->
            {f \in [1..n -> 0..MaxPos] : \A k \in 1..n : f[k] = 0 \/ f[k] >= starts[k]}
      [] dialect = "at" ->
            {f \in [1..n -> 1..MaxPos] : \A k \in 1..n : starts[k] + f[k] - 1 <= MaxPos}
      [] dialect = "width" -> [1..n -> 1..MaxPos]

\* the declarations that carry the "$": none, one of them, or all
DollarsOf(n) == {{}, 1..n} \cup {{k} : k \in 1..n}

NoFeature == [at |-> 0, fmt |-> "plain", dec |-> -1]

FeaturesOf(dialect, n) ==
    {NoFeature} \cup
    (IF dialect = "at"
     THEN {[at |-> k, fmt |-> f, dec |-> d] :
               k \in 1..n, f \in {"F", "wd"}, d \in 0..MaxDecimals}
          \cup {[at |-> k, fmt |-> "CHAR", dec |-> -1] : k \in 1..n}
     ELSE {[at |-> k, fmt |-> "dec", dec |-> d] : k \in 1..n, d \in 0..MaxDecimals})

\* the n declarations with these starts and spans, the "$" on the
\* declarations in dollars, and the feature on the declaration it names
MakeDecls(n, starts, spans, dollars, feature) ==
    [k \in 1..n |-> [name   |-> NameOf(k),
                     start  |-> starts[k],
                     span   |-> spans[k],
                     dollar |-> k \in dollars,
                     fmt    |-> IF feature.at = k THEN feature.fmt ELSE "plain",
                     dec    |-> IF feature.at = k THEN feature.dec ELSE -1]]

Shapes == {"two_line", "one_line", "lower_tab", "no_keyword", "no_terminator",
           "semi_before", "block_comment", "star_comment", "only_comment",
           "text_before", "text_after"}

\* every declaration list of every dialect, written as INPUT on a line of
\* its own and the declarations on the next
DeclIntent(i) ==
    \E dialect \in Dialects, n \in 1..MaxDecls :
      \E starts \in StartsOf(dialect, n) :
        \E spans \in SpansOf(dialect, n, starts), dollars \in DollarsOf(n),
           feature \in FeaturesOf(dialect, n) :
          i = [dialect |-> dialect, shape |-> "two_line", dash |-> TRUE,
               decls |-> MakeDecls(n, starts, spans, dollars, feature)]

\* every shape, around the plain position declarations; dash says how an
\* end is written ("1-5" or "1 5")
ShapeIntent(i) ==
    \E shape \in Shapes, n \in 1..MaxDecls, dash \in BOOLEAN :
      \E starts \in StartsOf("position", n) :
        \E spans \in SpansOf("position", n, starts) :
          i = [dialect |-> "position", shape |-> shape, dash |-> dash,
               decls |-> MakeDecls(n, starts, spans, {}, NoFeature)]

\* position declarations of which at least one has its end written before
\* its start ("NAME 3-1")
ReversedIntent(i) ==
    \E n \in 1..MaxDecls :
      \E starts \in StartsOf("position", n), dollars \in DollarsOf(n) :
        \E spans \in [1..n -> 1..MaxPos] :
          /\ \E k \in 1..n : spans[k] < starts[k]
          /\ i = [dialect |-> "position", shape |-> "two_line", dash |-> TRUE,
                  decls |-> MakeDecls(n, starts, spans, dollars, NoFeature)]

\* the scripts of the documented scenarios: NAME 1-5 AGE 6-7 (with and
\* without "$" on NAME), AMT $ 10 .2, and columns that sum to 15 bytes
PlainDecl(name, start, span, dollar) ==
    [name |-> name, start |-> start, span |-> span, dollar |-> dollar,
     fmt |-> "plain", dec |-> -1]

ScenarioA(dollar) ==
    [dialect |-> "position", shape |-> "two_line", dash |-> TRUE,
     decls |-> <<PlainDecl(FixedNames[1], 1, 5, dollar),
                 PlainDecl(FixedNames[2], 6, 7, FALSE)>>]

ScenarioB ==
    [dialect |-> "width", shape |-> "two_line", dash |-> TRUE,
     decls |-> <<[name |-> FixedNames[3], start |-> 0, span |-> 10, dollar |-> TRUE,
                  fmt |-> "dec", dec |-> 2]>>]

ScenarioCD ==
    [dialect |-> "position", shape |-> "two_line", dash |-> TRUE,
     decls |-> <<PlainDecl(FixedNames[1], 1, 5, FALSE),
                 PlainDecl(FixedNames[2], 6, 15, FALSE)>>]

ScenarioIntents == {ScenarioA(TRUE), ScenarioA(FALSE), ScenarioB, ScenarioCD}

\* the declared lengths of scenarios C and D
ScenarioLrecl == {10, 20}

Sp == <<" ">>

RenderScale(dec) == IF dec < 0 THEN <<>> ELSE Sp \o <<".">> \o StrOfNat(dec)

RenderFormat(d) ==
    CASE d.fmt = "plain" -> StrOfNat(d.span)
      [] d.fmt = "F"     -> <<"F">> \o StrOfNat(d.span) \o <<".">> \o StrOfNat(d.dec)
      [] d.fmt = "wd"    -> StrOfNat(d.span) \o <<".">> \o StrOfNat(d.dec)
      [] d.fmt = "CHAR"  -> <<"C", "H", "A", "R">> \o StrOfNat(d.span)

RenderDecl(dialect, d, dash) ==
    LET dollar == IF d.dollar THEN Sp \o <<"$">> ELSE <<>> IN
    CASE dialect = "position" ->
            d.name \o dollar \o Sp \o StrOfNat(d.start)
                \o (IF d.span = 0 THEN <<>>
                    ELSE (IF dash THEN <<"-">> ELSE Sp) \o StrOfNat(d.span))
                \o RenderScale(d.dec)
      [] dialect = "width" ->
            d.name \o dollar \o Sp \o StrOfNat(d.span) \o RenderScale(d.dec)
      [] dialect = "at" ->
            <<"@">> \o StrOfNat(d.start) \o Sp \o d.name \o dollar \o Sp
                \o RenderFormat(d)

RECURSIVE RenderDecls(_, _, _, _)
RenderDecls(dialect, decls, k, dash) ==
    IF k > Len(decls) THEN <<>>
    ELSE (IF k = 1 THEN <<>> ELSE Sp) \o RenderDecl(dialect, decls[k], dash)
             \o RenderDecls(dialect, decls, k + 1, dash)

LowerChar(c) == IF c \in DOMAIN LowerMap THEN LowerMap[c] ELSE c

Lower(s) == [k \in 1..Len(s) |-> LowerChar(s[k])]

Nl == <<"\n">>
Semi == <<";">>

\* text of a statement next to the INPUT statement, on its line
OutsideText == <<"Z", " ", "9">>

RenderShape(shape, body) ==
    CASE shape = "two_line"      -> KwInput \o Nl \o Sp \o body \o Semi \o Nl
      [] shape = "one_line"      -> KwInput \o Sp \o body \o Semi \o Nl
      [] shape = "lower_tab"     -> Lower(KwInput) \o <<"\t">> \o Lower(body) \o Semi \o Nl
      [] shape = "no_keyword"    -> Sp \o body \o Semi \o Nl
      [] shape = "no_terminator" -> KwInput \o Nl \o Sp \o body \o Nl
      [] shape = "semi_before"   -> <<"R", "U", "N">> \o Semi \o Nl
                                        \o KwInput \o Sp \o body \o Nl
      [] shape = "block_comment" -> <<"/", "*">> \o Sp \o KwInput \o Semi \o Nl
                                        \o <<"*", "/">> \o Nl
                                        \o KwInput \o Sp \o body \o Semi \o Nl
      [] shape = "star_comment"  -> <<"*">> \o Sp \o KwInput \o Semi \o Nl
                                        \o KwInput \o Sp \o body \o Semi \o Nl
      [] shape = "only_comment"  -> <<"/", "*">> \o Sp \o KwInput \o Sp \o body
                                        \o Semi \o Sp \o <<"*", "/">> \o Nl
      [] shape = "text_before"   -> OutsideText \o Sp \o KwInput \o Sp \o body
                                        \o Semi \o Nl
      [] shape = "text_after"    -> KwInput \o Sp \o body \o Semi \o Sp
                                        \o OutsideText \o Nl

Render(i) == RenderShape(i.shape, RenderDecls(i.dialect, i.decls, 1, i.dash))

-----------------------------------------------------------------------------
(* The parser as a state machine: a script on disk, and calls on it *)

NoCall == [op |-> "none", beginline |-> 1, lrecl |-> None, data |-> <<>>,
           skip_decimal_division |-> None, skip_rows |-> 0, n_rows |-> None]
NoRet  == [raised |-> "", columns |-> <<>>, parser |-> "none", tokens |-> <<>>,
           frame |-> <<>>, warnings |-> <<>>]

LreclValues == {None} \cup {Some(n) : n \in ((MaxLrecl - 1)..MaxLrecl) \cup ScenarioLrecl}

\* the data files decoded: the line of scenario A, and two lines of digits
\* of different lengths, one with a decimal point
AliceFile == <<"A", "L", "I", "C", "E", "2", "5", "\n">>
DataFiles == { AliceFile,
               <<"1", "2", "3", "4", "\n", "4", ".", "5", "\n">> }

UcIdle ==
    /\ uc_text = <<>>
    /\ uc_style = BlockStyle
    /\ uc_lines = <<>>
    /\ uc_first = <<>>
    /\ uc_calls = 0

PsIdle ==
    /\ script = <<>>
    /\ intent = [dialect |-> "none", shape |-> "none", decls |-> <<>>, dash |-> TRUE]
    /\ call = NoCall
    /\ ret = NoRet

\* split_dat not called: nothing read, nothing written
NoOut == [hhld |-> <<>>, family |-> <<>>, person |-> <<>>]

SdIdle ==
    /\ sd_source = <<>>
    /\ sd_linesep = <<"\n">>
    /\ sd_pc = "idle"
    /\ sd_lines = <<>>
    /\ sd_out = NoOut

\* an argument declared str | list[str]: the value with its run-time type
StrArg(text)   == [type |-> "str", value |-> text]
ListArg(texts) == [type |-> "list", value |-> texts]

\* skip_values=None
NoneArg == [type |-> "none", value |-> <<>>]

\* parse_data_dictionary not called; the arguments at their defaults
NoDictCall == [op |-> "none", output_path |-> FALSE, auto_detect_char |-> TRUE,
               line_prefix |-> <<"D">>, from_line |-> StrArg(<<>>),
               to_line |-> StrArg(<<>>), skip_values |-> NoneArg]
NoDictRet  == [script |-> <<>>, written |-> None, data_lines |-> <<>>,
               columns |-> <<>>]

DdIdle ==
    /\ dd_dict = <<>>
    /\ dd_intent = [kind |-> "none"]
    /\ dd_call = NoDictCall
    /\ dd_ret = NoDictRet

\* a mapping with no key
NoKeys == [k \in {} |-> k]

\* the cache directory empty, no manager constructed
FsIdle ==
    /\ fs_nodes = {}
    /\ fs_meta = NoKeys
CmIdle ==
    /\ cm_mgrs = NoKeys
    /\ cm_saved = NoKeys
    /\ cm_asked = None

\* load_from_url not called
NoLoadCall == [url |-> <<>>, save_name |-> <<>>, force_reload |-> FALSE,
               no_data_error |-> TRUE]
NoFrame == [fcm |-> None, path_save |-> <<>>, temp_dir |-> None,
            data_files |-> <<>>, other_files |-> <<>>, done |-> 0, exc |-> ""]
NoLoadRet == [how |-> "none", value |-> {}]
NoHist == [calls |-> 0, prev |-> None, meta |-> NoKeys, cached |-> FALSE,
           retrieved |-> 0]

LdIdle ==
    /\ ld_pc = "idle"
    /\ ld_call = NoLoadCall
    /\ ld_frame = NoFrame
    /\ ld_ret = NoLoadRet
    /\ ld_hist = NoHist

\* the wrapper not used
AfIdle ==
    /\ af_log = <<>>
    /\ af_invoked = <<>>

\* the zipfile module as imported, no invocation of LenientUnzip
Invocations == {1, 2}
Original == [fn |-> "original", of |-> 0]
ZpIdle ==
    /\ zp_decode = Original
    /\ zp_init = Original
    /\ zp_pc = [i \in Invocations |-> "idle"]
    /\ zp_saved = [i \in Invocations |-> [decode |-> None, init |-> None]]

IoIdle ==
    /\ FsIdle
    /\ CmIdle
    /\ LdIdle
    /\ AfIdle
    /\ ZpIdle

Init ==
    /\ \/ DeclIntent(intent)
       \/ ShapeIntent(intent)
       \/ ReversedIntent(intent)
       \/ intent \in ScenarioIntents
    /\ script = Render(intent)
    /\ call = NoCall
    /\ ret = NoRet
    /\ UcIdle
    /\ SdIdle
    /\ DdIdle
    /\ IoIdle

\* the lrecl a call from beginline is made with: every one from the first
\* line, none from a later line
LreclFrom(beginline) == IF beginline = 1 THEN LreclValues ELSE {None}

\* parse_sas_script(sas_script_path, beginline, lrecl).  No call writes the
\* script or keeps anything from one call to the next, so a behaviour makes
\* one call.
ParseSasScript(beginline) ==
    /\ call.op = "none"
    /\ \E parsed \in {ParseLines(StrippedLines(script, beginline))},
          lrecl \in LreclFrom(beginline) :
          /\ call' = [NoCall EXCEPT !.op = "parse_sas_script",
                                    !.beginline = beginline, !.lrecl = lrecl]
          /\ ret' = [FinishParse(parsed, lrecl) @@ NoRet
                        EXCEPT !.frame = <<>>, !.warnings = <<>>]
    /\ UNCHANGED <<script, intent, uc_vars, sd_vars, dd_vars, io_vars>>

\* read_sas_fwf(filepath, sas_script_path, skip_decimal_division=...), the
\* other arguments at their defaults
ReadSasFwf ==
    /\ call.op = "none"
    /\ \E parsed \in {parse_sas_script(script, 1, None)},
          data \in DataFiles, skip_decimal_division \in {None, Some(TRUE), Some(FALSE)} :
          \E out \in {Decode(parsed, data, 0, None, skip_decimal_division)} :
          /\ call' = [NoCall EXCEPT !.op = "read_sas_fwf", !.data = data,
                          !.skip_decimal_division = skip_decimal_division]
          /\ ret' = [parsed @@ NoRet EXCEPT !.raised = out.raised,
                         !.frame = out.frame, !.warnings = out.warnings]
    /\ UNCHANGED <<script, intent, uc_vars, sd_vars, dd_vars, io_vars>>

Next ==
    \/ \E beginline \in 1..MaxBegin : ParseSasScript(beginline)
    \/ ReadSasFwf

Spec == Init /\ [][Next]_vars

-----------------------------------------------------------------------------
(* Properties of parse_sas_script and read_sas_fwf *)

\* a call of parse_sas_script from the first line has returned or raised
ParsedFromTop == call.op = "parse_sas_script" /\ call.beginline = 1

\* the same, made without lrecl
ParsedPlain == ParsedFromTop /\ call.lrecl = None

\* the last byte a declaration names
EndOf(dialect, d) == IF dialect = "position" THEN d.span ELSE d.start + d.span - 1

\* the declarations name byte ranges that increase and do not overlap
Apart(i) ==
    \A k \in 1..(Len(i.decls) - 1) : EndOf(i.dialect, i.decls[k]) < i.decls[k + 1].start

\* every declaration of a position list has its end written
ExplicitEnds(i) == \A k \in 1..Len(i.decls) : i.decls[k].span # 0

\* the column called name has this width and the columns before it cover
\* the bytes before start
PlacedAt(columns, name, start, width) ==
    \E j \in 1..Len(columns) :
        /\ columns[j].varname = Some(name)
        /\ columns[j].width = width
        /\ SumAbsWidth(SubSeq(columns, 1, j - 1)) = start - 1

\* varname and width of each column
Outline(columns) == [j \in 1..Len(columns) |-> <<columns[j].varname, columns[j].width>>]

\* the outline a list of placements asks for, from the k-th on with the
\* cursor at current_pos: a skip exactly where a start is past the cursor
RECURSIVE ExpectedOutline(_, _, _)
ExpectedOutline(decls, k, current_pos) ==
    IF k > Len(decls) THEN <<>>
    ELSE (IF decls[k].start > current_pos
          THEN << <<None, -(decls[k].start - current_pos)>> >> ELSE <<>>)
             \o << <<Some(decls[k].name), decls[k].span>> >>
             \o ExpectedOutline(decls, k + 1, decls[k].start + decls[k].span)

\* C1: a call with a declared lrecl that returns gives a layout whose widths
\* sum, in absolute value, to lrecl: the columns the dialect parser gave,
\* followed by exactly one skip column of width -(lrecl - sum) when lrecl is
\* above their sum, and nothing more when it equals their sum.
C1_WidthsSumToLrecl ==
    (call.op = "parse_sas_script" /\ call.lrecl # None /\ ret.raised = "") =>
        LET columns     == ParseTokens(ret.tokens).columns
            total_width == SumAbsWidth(columns)
            n           == Len(columns)
        IN  /\ SumAbsWidth(ret.columns) = call.lrecl[1]
            /\ call.lrecl[1] >= total_width
            /\ SubSeq(ret.columns, 1, n) = columns
            /\ call.lrecl[1] = total_width => Len(ret.columns) = n
            /\ call.lrecl[1] > total_width =>
                   /\ Len(ret.columns) = n + 1
                   /\ ret.columns[n + 1].varname = None
                   /\ ret.columns[n + 1].width = -(call.lrecl[1] - total_width)

\* C1 happens: lrecl 20 over the columns NAME 1-5 AGE 6-15 gives them and a
\* trailing skip of width -5
C1_Witness ==
    /\ ParsedFromTop
    /\ intent = ScenarioCD
    /\ call.lrecl = Some(20)
    /\ ret.raised = ""
    /\ Len(ret.columns) = 3
    /\ ret.columns[1].width = 5 /\ ret.columns[2].width = 10
    /\ ret.columns[3].varname = None /\ ret.columns[3].width = -5

\* C2: a call whose lrecl is below the summed widths of the columns the
\* dialect parser gave raises and returns no layout, whatever the dialect.
C2_ShortLreclRaises ==
    (/\ call.op = "parse_sas_script" /\ call.lrecl # None
     /\ ret.parser # "none"
     /\ ParseTokens(ret.tokens).raised = ""
     /\ call.lrecl[1] < SumAbsWidth(ParseTokens(ret.tokens).columns))
        => ret.raised = ErrLrecl /\ ret.columns = <<>>

\* C2 happens: lrecl 10 over columns that sum to 15
C2_Witness ==
    /\ ParsedFromTop
    /\ intent = ScenarioCD
    /\ call.lrecl = Some(10)
    /\ SumAbsWidth(ParseTokens(ret.tokens).columns) = 15
    /\ ret.raised = ErrLrecl
    /\ ret.columns = <<>>

\* C3: when no line from beginline on, comments stripped, holds INPUT the
\* call raises; when one does but no line at or after the first such line
\* holds ";" the call raises; in both cases before any token is made or a
\* dialect parser chosen.
C3_MissingKeywordOrTerminator ==
    call.op = "parse_sas_script" =>
        LET lines == StrippedLines(script, call.beginline)
            kw    == {k \in 1..Len(lines) : Contains(lines[k], KwInput)}
        IN  /\ kw = {} =>
                   /\ ret.raised = ErrNoInput
                   /\ ret.parser = "none" /\ ret.tokens = <<>> /\ ret.columns = <<>>
            /\ (kw # {} /\ \A j \in Min(kw)..Len(lines) : ~Contains(lines[j], <<";">>)) =>
                   /\ ret.raised = ErrNoSemi
                   /\ ret.parser = "none" /\ ret.tokens = <<>> /\ ret.columns = <<>>

\* C3 happens: the only ";" of the script stands on a line before INPUT
C3_Witness ==
    /\ ParsedFromTop
    /\ intent.shape = "semi_before"
    /\ Contains(script, KwInput)
    /\ Contains(script, <<";">>)
    /\ ret.raised = ErrNoSemi
    /\ ret.parser = "none"

\* C4 (as the specification states it): the dialect is "at" when a token holds "@";
\* otherwise "width" when, the "$" tokens left out, the value after the
\* first name is followed by a token that is not purely numeric; otherwise
\* "position".  A width list of two or more declarations is never parsed as
\* a position list, nor a position list with its ends written as a width
\* list.
C4_DialectByTokenShapes ==
    (ParsedFromTop /\ ret.parser # "none" /\ ret.tokens # <<>>) =>
        LET rest     == NotDollar(Tail(ret.tokens))
            expected == IF HasAtSymbols(ret.tokens) THEN "at"
                        ELSE IF Len(rest) >= 2 /\ ~IsDigit(rest[2]) THEN "width"
                        ELSE "position"
        IN  /\ ret.parser = expected
            /\ (intent.dialect = "width" /\ Len(intent.decls) >= 2)
                   => ret.parser # "position"
            /\ (intent.dialect = "position" /\ ExplicitEnds(intent))
                   => ret.parser # "width"

\* C5 (as the specification states it): for position declarations with their ends
\* written, increasing and not overlapping, each named column has width
\* end - start + 1 and the columns before it cover start - 1 bytes, a gap
\* before the first column included.
C5_PositionGapsFilled ==
    (/\ ParsedPlain /\ intent.dialect = "position"
     /\ ExplicitEnds(intent) /\ Apart(intent)
     /\ ret.raised = "") =>
        \A k \in 1..Len(intent.decls) :
            PlacedAt(ret.columns, intent.decls[k].name, intent.decls[k].start,
                     intent.decls[k].span - intent.decls[k].start + 1)

\* C6: for "@start name [$] format" placements that increase and do not
\* overlap, the call returns, each named column has the columns before it
\* cover start - 1 bytes, and a skip column of width -(start - cursor)
\* stands before a column exactly when its start is past the cursor, which
\* begins at 1 and moves on by each column's width.
C6_AtGapsFilled ==
    (ParsedPlain /\ intent.dialect = "at" /\ Apart(intent)) =>
        /\ ret.raised = ""
        /\ ret.parser = "at"
        /\ \A k \in 1..Len(intent.decls) :
               PlacedAt(ret.columns, intent.decls[k].name, intent.decls[k].start,
                        intent.decls[k].span)
        /\ Outline(ret.columns) = ExpectedOutline(intent.decls, 1, 1)

\* C6 happens: the first placement starts past byte 1 and gets a skip, the
\* last one starts at the cursor and gets none
C6_Witness ==
    /\ ParsedPlain /\ intent.dialect = "at" /\ Apart(intent)
    /\ Len(intent.decls) = 2
    /\ intent.decls[1].start > 1
    /\ intent.decls[2].start = intent.decls[1].start + intent.decls[1].span
    /\ ret.raised = ""
    /\ Len(ret.columns) = 3
    /\ ret.columns[1].varname = None
    /\ ret.columns[1].width = -(intent.decls[1].start - 1)
    /\ ret.columns[2].varname # None /\ ret.columns[3].varname # None

\* C7 (as the specification states it): in each dialect a declaration with a scale
\* suffix .N parses without error into a column of divisor 10^-N, and one
\* without into a column of divisor 1.
C7_ScaleSuffixParses ==
    (ParsedPlain /\ intent.shape = "two_line" /\ intent.dialect \in Dialects) =>
        /\ ret.raised = ""
        /\ \A k \in 1..Len(intent.decls) :
               \E j \in 1..Len(ret.columns) :
                   /\ ret.columns[j].varname = Some(intent.decls[k].name)
                   /\ ret.columns[j].divisor =
                          IF intent.decls[k].dec >= 0
                          THEN Divisor(intent.decls[k].dec) ELSE DivisorOne

\* C8 (as the specification states it): the block AMT $ 10 .2 parses into exactly
\* one column, AMT, of width 10 and is_char true.
C8_ScenarioBParses ==
    (ParsedPlain /\ intent = ScenarioB) =>
        /\ ret.raised = ""
        /\ Len(ret.columns) = 1
        /\ ret.columns[1].varname = Some(FixedNames[3])
        /\ ret.columns[1].width = 10
        /\ ret.columns[1].is_char

\* C9: the script INPUT / NAME 1-5 AGE 6-7; is parsed by the position
\* parser into exactly the columns NAME, width 5, not text, and AGE, width
\* 2, with no skip column; with "$" on NAME, reading the one line ALICE25
\* gives one row, NAME the string ALICE and AGE the float 25.0.
C9_ScenarioA ==
    /\ (ParsedPlain /\ intent = ScenarioA(FALSE)) =>
           /\ ret.raised = ""
           /\ ret.parser = "position"
           /\ ret.columns = <<ColumnSpec(Some(FixedNames[1]), 5, FALSE, DivisorOne),
                              ColumnSpec(Some(FixedNames[2]), 2, FALSE, DivisorOne)>>
    /\ (call.op = "read_sas_fwf" /\ call.data = AliceFile /\ intent = ScenarioA(TRUE)) =>
           /\ ret.raised = ""
           /\ ret.frame =
                  <<[name |-> FixedNames[1], dtype |-> "Utf8",
                     values |-> <<[kind |-> "str", text |-> <<"A", "L", "I", "C", "E">>,
                                   num |-> 0, den |-> 1]>>],
                    [name |-> FixedNames[2], dtype |-> "Float64",
                     values |-> <<[kind |-> "f64", text |-> <<>>,
                                   num |-> 25, den |-> 1]>>]>>

\* C9 happens: ALICE25 has been read with the layout NAME $ 1-5 AGE 6-7
C9_Witness ==
    /\ call.op = "read_sas_fwf"
    /\ call.data = AliceFile
    /\ intent = ScenarioA(TRUE)
    /\ script = KwInput \o <<"\n", " ">> \o FixedNames[1]
                    \o <<" ", "$", " ", "1", "-", "5", " ">> \o FixedNames[2]
                    \o <<" ", "6", "-", "7", ";", "\n">>
    /\ ret.parser = "position"
    /\ Len(ret.columns) = 2
    /\ Len(ret.frame) = 2
    /\ Len(ret.frame[1].values) = 1
    /\ ret.frame[2].values[1].num = 25

-----------------------------------------------------------------------------
(* The decoder on layouts of its own: "@start name [$] format" scripts     *)
(* whose columns all have one width and one gap before each of them,       *)
(* called NAME, AGE, ... or all NAME.  One column of a script may carry a  *)
(* scale (Fw.d) or have width 0.                                           *)

ReadNames(n, same) == [k \in 1..n |-> IF same THEN FixedNames[1] ELSE NameOf(k)]

ReadFeaturesOf(n) ==
    {NoFeature}
        \cup {[at |-> k, fmt |-> "F", dec |-> d] : k \in 1..n, d \in 0..MaxDecimals}
        \cup {[at |-> k, fmt |-> "flat", dec |-> -1] : k \in 1..n}

MakeReadDecls(n, width, gap, same, dollars, feature) ==
    [k \in 1..n |->
        [name   |-> ReadNames(n, same)[k],
         start  |-> gap + 1 + (k - 1) * (width + gap),
         span   |-> IF feature.at = k /\ feature.fmt = "flat" THEN 0 ELSE width,
         dollar |-> k \in dollars,
         fmt    |-> IF feature.at = k /\ feature.fmt = "F" THEN "F" ELSE "plain",
         dec    |-> IF feature.at = k THEN feature.dec ELSE -1]]

ReadIntent(i) ==
    \E n \in 1..MaxDecls, width \in 1..MaxWidth, gap \in 0..1, same \in BOOLEAN :
      \E dollars \in DollarsOf(n), feature \in ReadFeaturesOf(n) :
        /\ same => n > 1
        /\ i = [dialect |-> "at", shape |-> "two_line", dash |-> TRUE,
                decls |-> MakeReadDecls(n, width, gap, same, dollars, feature)]

\* the data files read: digits only, digits and a value with a decimal
\* point, letters only, and digits, letters and an empty line
DigitFile  == <<"1", "2", "3", "4", "\n", "5", "6", "\n">>
DottedFile == <<"1", "2", "3", "4", "\n", "4", ".", "5", "\n">>
LetterFile == <<"A", "B", "\n", "C", "D", "\n">>
MixedFile  == <<"1", "2", "\n", "A", "B", "\n", "\n">>
ReadFiles  == {DigitFile, DottedFile, LetterFile, MixedFile}

ReadInit ==
    /\ ReadIntent(intent)
    /\ script = Render(intent)
    /\ call = NoCall
    /\ ret = NoRet
    /\ UcIdle
    /\ SdIdle
    /\ DdIdle
    /\ IoIdle

\* read_sas_fwf(filepath, sas_script_path, n_rows=..., skip_rows=...,
\* skip_decimal_division=...), the other arguments at their defaults
ReadSasFwfRows(skip_rows, n_rows) ==
    /\ call.op = "none"
    /\ \E parsed \in {parse_sas_script(script, 1, None)},
          data \in ReadFiles, skip_decimal_division \in {None, Some(TRUE), Some(FALSE)} :
          \E out \in {Decode(parsed, data, skip_rows, n_rows, skip_decimal_division)} :
          /\ call' = [NoCall EXCEPT !.op = "read_sas_fwf", !.data = data,
                          !.skip_decimal_division = skip_decimal_division,
                          !.skip_rows = skip_rows, !.n_rows = n_rows]
          /\ ret' = [parsed @@ NoRet EXCEPT !.raised = out.raised,
                         !.frame = out.frame, !.warnings = out.warnings]
    /\ UNCHANGED <<script, intent, uc_vars, sd_vars, dd_vars, io_vars>>

ReadNext ==
    \E skip_rows \in 0..MaxSkipRows, n_rows \in {None} \cup {Some(k) : k \in 0..MaxRows} :
        ReadSasFwfRows(skip_rows, n_rows)

SpecRead == ReadInit /\ [][ReadNext]_vars

-----------------------------------------------------------------------------
(* Properties of the decoder *)

ReadDone == call.op = "read_sas_fwf"

\* the positions in the layout of the columns the decoder materializes
Kept(columns) ==
    {k \in 1..Len(columns) : columns[k].varname # None /\ columns[k].width > 0}

\* no two materialized columns of the layout share a name
DistinctNames(columns) ==
    \A j, k \in Kept(columns) : j # k => columns[j].varname # columns[k].varname

\* a physical line without its line break
Chomp(line) == SelectSeq(line, LAMBDA c : c \notin {"\n", "\r"})

\* the physical lines of the file kept after skip_rows and n_rows
RetainedLines ==
    LET lines == ReadLines(call.data)
        last  == IF call.n_rows = None \/ call.skip_rows + call.n_rows[1] > Len(lines)
                 THEN Len(lines) ELSE call.skip_rows + call.n_rows[1]
    IN  [r \in 1..(IF last > call.skip_rows THEN last - call.skip_rows ELSE 0)
            |-> Chomp(lines[call.skip_rows + r])]

\* the characters [offset, offset + abs(width)) of the line for the k-th
\* ColumnSpec, offset the summed abs(width) of the ColumnSpecs before it
Chunk(line, columns, k) ==
    LET offset == SumAbsWidth(SubSeq(columns, 1, k - 1))
        stop   == IF offset + Abs(columns[k].width) < Len(line)
                  THEN offset + Abs(columns[k].width) ELSE Len(line)
    IN  [j \in 1..(IF stop > offset THEN stop - offset ELSE 0) |-> line[offset + j]]

\* the series of the returned frame called name
Series(name) == ret.frame[CHOOSE k \in 1..Len(ret.frame) : ret.frame[k].name = name]
HasSeries(name) == \E k \in 1..Len(ret.frame) : ret.frame[k].name = name

\* a parsed number times the column's scale
TimesScale(cell, divisor) ==
    IF cell.kind = "f64"
    THEN Normal(cell.num * divisor.num, cell.den * divisor.den) ELSE cell

\* how often name occurs in the warnings
WarningsFor(name) ==
    Cardinality({k \in 1..Len(ret.warnings) : ret.warnings[k] = name})

\* C11 (as the specification states it): for every layout, names repeated
\* or not, the frame returned has exactly one column per ColumnSpec with a
\* name and a positive width, in declaration order, each with one row per
\* line retained after skip_rows and n_rows.
C11_OneColumnPerSpec ==
    ReadDone =>
        LET wanted == SelectSeq(ret.columns,
                                LAMBDA c : c.varname # None /\ c.width > 0)
        IN  /\ ret.raised = ""
            /\ Len(ret.frame) = Len(wanted)
            /\ \A k \in 1..Len(wanted) :
                   /\ ret.frame[k].name = wanted[k].varname[1]
                   /\ Len(ret.frame[k].values) = Len(RetainedLines)

\* C12: the chunk of the k-th ColumnSpec is cut at the summed abs(width) of
\* the ColumnSpecs before it, skip columns included; a line that ends
\* before or inside the column gives the empty or the shortened chunk; no
\* call raises or loses a row.  (Seen on the cells: a text cell is the
\* trimmed chunk, a numeric cell read without scaling is its number.)
C12_ChunksAtOffsets ==
    (ReadDone /\ DistinctNames(ret.columns)) =>
        /\ ret.raised = ""
        /\ \A k \in Kept(ret.columns) :
               LET col == ret.columns[k] IN
               /\ HasSeries(col.varname[1])
               /\ Len(Series(col.varname[1]).values) = Len(RetainedLines)
               /\ \A r \in 1..Len(RetainedLines) :
                      LET chunk == Chunk(RetainedLines[r], ret.columns, k)
                          cell  == Series(col.varname[1]).values[r]
                      IN  /\ col.is_char => cell = StrCell(Strip(chunk))
                          /\ (~col.is_char /\ call.skip_decimal_division = Some(TRUE))
                                 => cell = CastFloat(chunk)

\* C12 happens: a retained line ends inside one text column, which gets the
\* shortened chunk, and before another, which gets the empty one, with a
\* skip column before each
C12_Witness ==
    /\ ReadDone /\ DistinctNames(ret.columns) /\ ret.raised = ""
    /\ \E r \in 1..Len(RetainedLines) : \E j, k \in Kept(ret.columns) :
          LET line == RetainedLines[r]
              at_j == SumAbsWidth(SubSeq(ret.columns, 1, j - 1))
              at_k == SumAbsWidth(SubSeq(ret.columns, 1, k - 1))
          IN  /\ ret.columns[j].is_char /\ ret.columns[k].is_char
              /\ j > 1 /\ ret.columns[j - 1].varname = None
              /\ at_j < Len(line) /\ Len(line) < at_j + ret.columns[j].width
              /\ Len(line) <= at_k
              /\ Series(ret.columns[j].varname[1]).values[r]
                     = StrCell(SubSeq(line, at_j + 1, Len(line)))
              /\ Series(ret.columns[k].varname[1]).values[r] = StrCell(<<>>)

\* C13: in a numeric column a value that does not parse becomes null and
\* the call goes on; the column's warning is given once when none of its
\* values parses, and not at all when one does; text columns give none.
C13_WarnOncePerNullColumn ==
    (ReadDone /\ DistinctNames(ret.columns)) =>
        /\ ret.raised = ""
        /\ \A k \in Kept(ret.columns) :
               LET col    == ret.columns[k]
                   parses == [r \in 1..Len(RetainedLines) |->
                                 IsDecimalText(Strip(Chunk(RetainedLines[r],
                                                           ret.columns, k)))]
               IN  IF col.is_char THEN WarningsFor(col.varname[1]) = 0
                   ELSE /\ \A r \in 1..Len(RetainedLines) :
                               Series(col.varname[1]).values[r].kind
                                   = IF parses[r] THEN "f64" ELSE "null"
                        /\ WarningsFor(col.varname[1])
                               = IF \E r \in 1..Len(RetainedLines) : parses[r]
                                 THEN 0 ELSE 1

\* C13 happens: two lines of letters read into a numeric column give two
\* nulls and one warning, and the text column beside it none
C13_Witness ==
    /\ ReadDone /\ DistinctNames(ret.columns) /\ ret.raised = ""
    /\ call.data = LetterFile
    /\ Len(RetainedLines) = 2
    /\ \E j, k \in Kept(ret.columns) :
          /\ ~ret.columns[k].is_char /\ ret.columns[j].is_char
          /\ Series(ret.columns[k].varname[1]).values = <<NullCell, NullCell>>
          /\ Series(ret.columns[k].varname[1]).dtype = "Float64"
          /\ WarningsFor(ret.columns[k].varname[1]) = 1
          /\ Len(ret.warnings) = 1

\* C14 (as the specification states it): without the override, a numeric
\* column with a scale is multiplied by it when none of its raw values
\* holds a decimal point, and left alone when one does.
C14_AutoScaling ==
    (ReadDone /\ DistinctNames(ret.columns) /\ call.skip_decimal_division = None) =>
        /\ ret.raised = ""
        /\ \A k \in Kept(ret.columns) :
               LET col    == ret.columns[k]
                   raw    == [r \in 1..Len(RetainedLines) |->
                                 Strip(Chunk(RetainedLines[r], ret.columns, k))]
                   dotted == \E r \in 1..Len(RetainedLines) : Contains(raw[r], <<".">>)
               IN  (~col.is_char /\ col.divisor # DivisorOne) =>
                       \A r \in 1..Len(RetainedLines) :
                           Series(col.varname[1]).values[r]
                               = IF dotted THEN CastFloat(raw[r])
                                 ELSE TimesScale(CastFloat(raw[r]), col.divisor)

\* C15: with the override the raw values do not matter: with True no
\* numeric column is multiplied by its scale, with False every numeric
\* column with a scale is; text columns stay the trimmed text.
C15_OverrideScaling ==
    (ReadDone /\ DistinctNames(ret.columns) /\ call.skip_decimal_division # None) =>
        /\ ret.raised = ""
        /\ \A k \in Kept(ret.columns) :
               LET col == ret.columns[k]
                   raw == [r \in 1..Len(RetainedLines) |->
                              Strip(Chunk(RetainedLines[r], ret.columns, k))]
               IN  /\ Series(col.varname[1]).dtype
                          = IF col.is_char THEN "Utf8" ELSE "Float64"
                   /\ \A r \in 1..Len(RetainedLines) :
                          Series(col.varname[1]).values[r]
                              = IF col.is_char THEN StrCell(raw[r])
                                ELSE IF call.skip_decimal_division[1]
                                THEN CastFloat(raw[r])
                                ELSE TimesScale(CastFloat(raw[r]), col.divisor)

\* C15 happens: with the override False the raw value 4.5 of a column of
\* scale 1/10 is returned as 0.45, and the scaled text column beside it
\* as text
C15_Witness ==
    /\ ReadDone /\ DistinctNames(ret.columns) /\ ret.raised = ""
    /\ call.skip_decimal_division = Some(FALSE)
    /\ call.data = DottedFile
    /\ \E k \in Kept(ret.columns) : \E r \in 1..Len(RetainedLines) :
          /\ ~ret.columns[k].is_char
          /\ ret.columns[k].divisor = Divisor(1)
          /\ Chunk(RetainedLines[r], ret.columns, k) = <<"4", ".", "5">>
          /\ Series(ret.columns[k].varname[1]).values[r]
                 = [kind |-> "f64", text |-> <<>>, num |-> 45, den |-> 100]

-----------------------------------------------------------------------------
(* Comment stripper on its own: every text of up to MaxText characters     *)
(* over the marker characters, a filler and the line break                 *)

\* the function f on 1..n as a tuple
RECURSIVE AsSeq(_, _)
AsSeq(f, n) == IF n = 0 THEN <<>> ELSE Append(AsSeq(f, n - 1), f[n])

StyleAlphabet(style) == {style[1][k] : k \in 1..Len(style[1])}
                            \cup {style[2][k] : k \in 1..Len(style[2])}
                            \cup {"a", "\n"}

UcInit ==
    /\ uc_style \in CommentStyles
    /\ \E n \in 0..MaxText :
          \E t \in [1..n -> StyleAlphabet(uc_style)] : uc_text = AsSeq(t, n)
    /\ uc_lines = ReadLines(uc_text)
    /\ uc_first = <<>>
    /\ uc_calls = 0
    /\ PsIdle
    /\ SdIdle
    /\ DdIdle
    /\ IoIdle

\* one call result = _uncomment_sas(result, start, end)
UncommentCall ==
    /\ uc_calls < MaxCalls
    /\ uc_lines' = uncomment_sas(uc_lines, uc_style[1], uc_style[2])
    /\ uc_first' = IF uc_calls = 0 THEN uc_lines' ELSE uc_first
    /\ uc_calls' = uc_calls + 1
    /\ UNCHANGED <<uc_text, uc_style, ps_vars, sd_vars, dd_vars, io_vars>>

UcNext == UncommentCall

SpecUncomment == UcInit /\ [][UcNext]_vars

-----------------------------------------------------------------------------
(* Properties of the comment stripper *)

\* C10: comment stripping is idempotent.  For every list of lines and both
\* comment styles, stripping the stripped lines again gives the stripped
\* lines: from the second call on, the lines are those the first call left.
C10_UncommentIdempotent == uc_calls >= 2 => uc_lines = uc_first

\* C10 happens: a second call has been made on lines from which the first
\* call removed a comment, and one of them was a comment left open to the
\* end of the text or a line from which more than one comment was cut
C10_Witness ==
    /\ uc_calls = 2
    /\ uc_first # ReadLines(uc_text)
    /\ uc_lines = uc_first
    /\ Len(uc_text) = MaxText
    /\ Find(uc_text, uc_style[1]) # 0
    /\ \E k \in 1..Len(uc_first) :
          Len(uc_first[k]) + Len(uc_style[1]) + Len(uc_style[2])
              < Len(ReadLines(uc_text)[k])

-----------------------------------------------------------------------------
(* split_dat (census/cps_asec.py) *)

\* longest generated source file, in bytes
MaxSource == 4

\* seqs[1] + seqs[2] + ...
RECURSIVE Flat(_)
Flat(seqs) == IF seqs = <<>> THEN <<>> ELSE Head(seqs) \o Flat(Tail(seqs))

Cr == <<"\r">>
CrNl == <<"\r", "\n">>

\* for line in open(path, 'r'): the file is opened in text mode with the
\* default newline=None, so "\n", "\r\n" and "\r" each end a line and each
\* reaches the program as "\n"; the last line may have no ending at all
RECURSIVE TextModeLines(_)
TextModeLines(bytes) ==
    LET ends == {p \in 1..Len(bytes) : bytes[p] \in {"\r", "\n"}}
    IN  IF bytes = <<>> THEN <<>>
        ELSE IF ends = {} THEN <<bytes>>
        ELSE LET p == Min(ends)
                 q == IF StartsAt(bytes, CrNl, p) THEN p + 1 ELSE p
             IN  <<Take(bytes, p - 1) \o Nl>> \o TextModeLines(Drop(bytes, q))

\* f.write(line) on a file opened with 'w': text mode with the default
\* newline=None writes each "\n" as os.linesep
TextModeWrite(line, linesep) ==
    Flat([k \in 1..Len(line) |-> IF line[k] = "\n" THEN linesep ELSE <<line[k]>>])

\* the destination of a line: the if / elif chain on its first character;
\* the variant sends every line that is no family or person line to the
\* household file
SplitRouteElse(line) ==
    IF line = <<>> THEN "none"
    ELSE CASE line[1] = "2" -> "family"
           [] line[1] = "3" -> "person"
           [] OTHER         -> "hhld"

SplitRoute(line) ==
    IF line = <<>> THEN "none"
    ELSE CASE line[1] = "1" -> "hhld"
           [] line[1] = "2" -> "family"
           [] line[1] = "3" -> "person"
           [] OTHER         -> "none"

\* Scenario F of the specification, and a source whose lines end in "\r\n",
\* "\r" and "\n"
ScenarioFSource ==
    <<"1", "a", "b", "c", "\n", "2", "d", "e", "f", "\n",
      "9", "i", "g", "n", "o", "r", "e", "d", "\n",
      "3", "g", "h", "i", "\n", "1", "j", "k", "l">>
CrSource ==
    <<"1", "a", "\r", "\n", "2", "b", "\r", "3", "c", "\n", "\n", "9", "\n", "1">>

SplitAlphabet == {"1", "2", "3", "9", "\r", "\n"}

\* the line separators of the platforms Python runs on
LineSeps == {Nl, CrNl}

SplitInit ==
    /\ \/ \E n \in 0..MaxSource :
             \E t \in [1..n -> SplitAlphabet] : sd_source = [k \in 1..n |-> t[k]]
       \/ sd_source \in {ScenarioFSource, CrSource}
    /\ sd_linesep \in LineSeps
    /\ sd_pc = "idle"
    /\ sd_lines = <<>>
    /\ sd_out = NoOut
    /\ PsIdle
    /\ UcIdle
    /\ DdIdle
    /\ IoIdle

\* the with statement is entered: the source is opened for reading, the
\* three destinations are opened for writing and so emptied
SplitOpen ==
    /\ sd_pc = "idle"
    /\ sd_pc' = "open"
    /\ sd_lines' = TextModeLines(sd_source)
    /\ sd_out' = NoOut
    /\ UNCHANGED <<sd_source, sd_linesep, ps_vars, uc_vars, dd_vars, io_vars>>

\* one turn of the loop over the source's lines
SplitLine ==
    /\ sd_pc = "open"
    /\ sd_lines # <<>>
    /\ \E line \in {Head(sd_lines)} :
          \E dest \in {SplitRoute(line)} :
             sd_out' = IF dest = "none" THEN sd_out
                       ELSE [sd_out EXCEPT ![dest] = @ \o TextModeWrite(line, sd_linesep)]
    /\ sd_lines' = Tail(sd_lines)
    /\ UNCHANGED <<sd_source, sd_linesep, sd_pc, ps_vars, uc_vars, dd_vars, io_vars>>

\* the source is exhausted: the with statement closes the four files
SplitClose ==
    /\ sd_pc = "open"
    /\ sd_lines = <<>>
    /\ sd_pc' = "closed"
    /\ UNCHANGED <<sd_source, sd_linesep, sd_lines, sd_out, ps_vars, uc_vars, dd_vars, io_vars>>

SplitNext == SplitOpen \/ SplitLine \/ SplitClose

SpecSplit == SplitInit /\ [][SplitNext]_vars

-----------------------------------------------------------------------------
(* Properties of split_dat *)

Destinations == {"hhld", "family", "person"}
Discriminator == [hhld |-> "1", family |-> "2", person |-> "3"]

\* the lines of a text that start with the character c, in the order of the
\* text, put one after the other
LinesOf(text, c) ==
    Flat(SelectSeq(ReadLines(text), LAMBDA l : l[1] = c))

\* a text with every "\r\n" and every remaining "\r" turned into "\n"
UnixEol(text) == ReplaceAll(ReplaceAll(text, CrNl, Nl), Cr, Nl)

\* the lines the loop has already passed, as the program saw them
Passed ==
    LET all == TextModeLines(sd_source)
    IN  Flat(Take(all, Len(all) - Len(sd_lines)))

\* C16 (as the specification states it): when split_dat has finished, each
\* destination holds byte for byte the source lines that start with its
\* discriminator, in source order, and nothing else.
C16_ByteForByte ==
    sd_pc = "closed" =>
        \A d \in Destinations : sd_out[d] = LinesOf(sd_source, Discriminator[d])

\* C16 (amended): split_dat partitions the source without reordering, up to
\* the line endings.  The source is read with universal newlines, so "\r\n"
\* and "\r" end a line just as "\n" does; at every point of the loop each
\* destination holds the lines passed so far that start with its
\* discriminator ('1' household, '2' family, '3' person), in source order,
\* their content unchanged and each line ending written as the platform's
\* line separator.  Empty lines and lines starting with any other character
\* are in no destination.
C16_PartitionInOrder ==
    /\ sd_pc = "open" =>
          \A d \in Destinations :
              sd_out[d] = ReplaceAll(LinesOf(Passed, Discriminator[d]),
                                     Nl, sd_linesep)
    /\ sd_pc = "closed" =>
          \A d \in Destinations :
              sd_out[d] = ReplaceAll(LinesOf(UnixEol(sd_source), Discriminator[d]),
                                     Nl, sd_linesep)

\* C16 happens: split_dat has finished on a source with "\r\n" and "\r" line
\* endings, an empty line, a line for no destination and a last line without
\* an ending, and has written to all three destinations
C16_Witness ==
    /\ sd_pc = "closed"
    /\ sd_source = CrSource
    /\ sd_linesep = Nl
    /\ sd_out = [hhld   |-> <<"1", "a", "\n", "1">>,
                 family |-> <<"2", "b", "\n">>,
                 person |-> <<"3", "c", "\n">>]

-----------------------------------------------------------------------------
(* parse_data_dictionary (census/cps_asec.py) *)

\* from_line / to_line after lines 268-271: a str argument x becomes
\* list[x], which is no list holding x but the parameterised type
\* (types.GenericAlias); a list argument stays as it is
MarkerArg(arg) ==
    IF arg.type = "str" THEN [type |-> "alias", value |-> arg.value] ELSE arg

\* skip_values after lines 272-276: a str becomes the list holding it, None
\* the empty list
SkipList(arg) ==
    CASE arg.type = "str"  -> <<arg.value>>
      [] arg.type = "none" -> <<>>
      [] OTHER             -> arg.value

\* marker == "": true of the empty str only, of no list and no alias
IsEmptyStr(marker) == marker.type = "str" /\ marker.value = <<>>

\* text in marker: membership in a list; iterating an alias list[x] yields
\* the unpacked alias *list[x], which equals no str
TextIn(text, marker) ==
    /\ marker.type = "list"
    /\ \E k \in 1..Len(marker.value) : marker.value[k] = text

\* text.startswith(prefix)
StartsWith(text, prefix) == StartsAt(text, prefix, 1)

\* the loop of lines 286-295 from the given flags on: the lines it keeps
RECURSIVE SelectLoop(_, _, _, _, _, _)
SelectLoop(lines, start_found, end_found, from_line, to_line, line_prefix) ==
    IF lines = <<>> THEN <<>>
    ELSE LET text  == Strip(Head(lines))
             start == IF ~start_found THEN TextIn(text, from_line) ELSE start_found
             end   == IF ~end_found /\ ~IsEmptyStr(to_line)
                      THEN TextIn(text, to_line) ELSE end_found
             keep_line == start /\ ~end /\ StartsWith(text, line_prefix)
         IN  (IF keep_line THEN <<Head(lines)>> ELSE <<>>)
                 \o SelectLoop(Tail(lines), start, end, from_line, to_line, line_prefix)

\* a variant that takes the section to start at the top of the file whatever
\* from_line is
SelectLinesFromTop(lines, from_line, to_line, line_prefix) ==
    SelectLoop(lines, TRUE, FALSE, from_line, to_line, line_prefix)

\* lines 282-295: data_lines
SelectLines(lines, from_line, to_line, line_prefix) ==
    SelectLoop(lines, IsEmptyStr(from_line), FALSE, from_line, to_line, line_prefix)

\* s.replace(c, '') for a character c
RemoveChar(s, c) == SelectSeq(s, LAMBDA x : x # c)

\* s.replace(c, d) for characters c and d
ReplaceChar(s, c, d) == [k \in 1..Len(s) |-> IF s[k] = c THEN d ELSE s[k]]

\* s.strip(chars)
StripChars(s, chars) ==
    LET kept == {k \in 1..Len(s) : s[k] \notin chars}
    IN  IF kept = {} THEN <<>> ELSE SubSeq(s, Min(kept), Max(kept))

\* s.split(sep) for a character sep: the pieces between the separators,
\* empty ones included
RECURSIVE SplitOn(_, _)
SplitOn(s, sep) ==
    LET p == Find(s, <<sep>>)
    IN  IF p = 0 THEN <<s>>
        ELSE <<Take(s, p - 1)>> \o SplitOn(Drop(s, p), sep)

\* int(s) succeeds: digits with an optional sign (the underscores and the
\* surrounding blanks int() also accepts do not occur in the tokens here)
Unsigned(s) == IF s # <<>> /\ s[1] \in {"+", "-"} THEN Tail(s) ELSE s
IsIntText(s) == IsDigit(Unsigned(s))
IntText(s) == IF s[1] = "-" THEN 0 - IntOf(Unsigned(s)) ELSE IntOf(Unsigned(s))

\* str(n)
StrOfInt(n) == IF n < 0 THEN <<"-">> \o StrOfNat(0 - n) ELSE StrOfNat(n)

\* char_indicators (lines 328-331)
CharIndicators ==
    { <<"I", "D">>,
      <<"C", "O", "D", "E">>,
      <<"N", "A", "M", "E">>,
      <<"D", "E", "S", "C">>,
      <<"T", "Y", "P", "E">>,
      <<"C", "A", "T">>,
      <<"C", "L", "A", "S", "S">>,
      <<"G", "R", "O", "U", "P">>,
      <<"S", "T", "A", "T", "U", "S">>,
      <<"F", "L", "A", "G">> }

\* not p.replace('-', '').replace('.', '').isdigit()
NotDigitsOnly(p) == ~IsDigit(RemoveChar(RemoveChar(p, "-"), "."))

\* lines 336-344: the range annotation says "character"
RangeSaysChar(range_str) ==
    LET range_content == StripChars(range_str, {"(", ")"})
        parts == SplitOn(range_content, ":")
    IN  /\ range_str # <<>>
        /\ Contains(range_content, <<":">>)
        /\ \E k \in 1..Len(parts) :
              Strip(parts[k]) # <<>> /\ NotDigitsOnly(parts[k])

\* lines 323-344: is_char
IsChar(varname, range_str, auto_detect_char) ==
    /\ auto_detect_char
    /\ \/ \E indicator \in CharIndicators : Contains(Upper(varname), indicator)
       \/ RangeSaysChar(range_str)

\* one turn of the loop of lines 298-354 with an entry whose end is given:
\* what it appends to columns
EntryWithEnd(parts, end, auto_detect_char, skip_values) ==
    LET varname   == ReplaceChar(parts[1], "-", "_")
        range_str == IF Len(parts) > 3 THEN parts[4] ELSE <<>>
    IN  IF \E k \in 1..Len(skip_values) : skip_values[k] = varname THEN <<>>
        ELSE << [varname |-> varname,
                 begin   |-> IntText(parts[3]),
                 end     |-> end,
                 size    |-> IntText(parts[2]),
                 is_char |-> IsChar(varname, range_str, auto_detect_char),
                 range   |-> range_str] >>

\* a variant of the turn that takes begin + size for the end
EntryEndOffByOne(line, line_prefix, auto_detect_char, skip_values) ==
    LET text  == Strip(line)
        body  == IF StartsWith(text, line_prefix)
                 THEN Strip(Drop(text, Len(line_prefix))) ELSE text
        parts == Split(body)
    IN  IF Len(parts) < 3 THEN <<>>
        ELSE IF ~(IsIntText(parts[2]) /\ IsIntText(parts[3])) THEN <<>>
        ELSE EntryWithEnd(parts, IntText(parts[3]) + IntText(parts[2]),
                          auto_detect_char, skip_values)

\* one turn of the loop of lines 298-354: <<>> when the line is passed over
\* (continue) or its name is in skip_values, else the column in a list
Entry(line, line_prefix, auto_detect_char, skip_values) ==
    LET text  == Strip(line)
        body  == IF StartsWith(text, line_prefix)
                 THEN Strip(Drop(text, Len(line_prefix))) ELSE text
        parts == Split(body)
    IN  IF Len(parts) < 3 THEN <<>>
        ELSE IF ~(IsIntText(parts[2]) /\ IsIntText(parts[3])) THEN <<>>
        ELSE EntryWithEnd(parts, IntText(parts[3]) + IntText(parts[2]) - 1,
                          auto_detect_char, skip_values)

\* lines 297-354: columns, in the order of data_lines
RECURSIVE Entries(_, _, _, _)
Entries(data_lines, line_prefix, auto_detect_char, skip_values) ==
    IF data_lines = <<>> THEN <<>>
    ELSE Entry(Head(data_lines), line_prefix, auto_detect_char, skip_values)
             \o Entries(Tail(data_lines), line_prefix, auto_detect_char, skip_values)

\* columns.sort(key=lambda x: x['begin']): ascending and stable
RECURSIVE SortByBegin(_)
SortByBegin(columns) ==
    IF columns = <<>> THEN <<>>
    ELSE LET last   == columns[Len(columns)]
             sorted == SortByBegin(Take(columns, Len(columns) - 1))
             k      == Cardinality({j \in 1..Len(sorted) : sorted[j].begin <= last.begin})
         IN  Take(sorted, k) \o <<last>> \o Drop(sorted, k)

GeneratedHeader == <<"/", "*", " ", "G", "e", "n", "e", "r", "a", "t", "e", "d", " ", "f", "r", "o", "m", " ", "d", "a", "t", "a", " ", "d", "i", "c", "t", "i", "o", "n", "a", "r", "y", " ", "*", "/">>

\* line 365: the declaration of one column
ColumnLine(col) ==
    <<" ", " ", " ", " ">> \o col.varname
        \o (IF col.is_char THEN <<" ", "$">> ELSE <<>>)
        \o Sp \o StrOfInt(col.begin) \o <<"-">> \o StrOfInt(col.end)
        \o (IF col.range # <<>>
            THEN <<" ", " ", "/", "*", " ">> \o col.range \o <<" ", "*", "/">>
            ELSE <<>>)

\* "\n".join(lines)
RECURSIVE JoinNl(_)
JoinNl(lines) ==
    IF lines = <<>> THEN <<>>
    ELSE IF Len(lines) = 1 THEN lines[1]
    ELSE Head(lines) \o Nl \o JoinNl(Tail(lines))

\* lines 360-369: sas_script
SasScript(columns) ==
    JoinNl(<<GeneratedHeader, KwInput>>
               \o [k \in 1..Len(columns) |-> ColumnLine(columns[k])]
               \o <<Semi>>)

\* parse_data_dictionary on the text of the dictionary file
parse_data_dictionary(text, output_path, auto_detect_char, line_prefix, from_line, to_line, skip_values) ==
    LET data_lines == SelectLines(ReadLines(text), MarkerArg(from_line),
                                  MarkerArg(to_line), line_prefix)
        columns    == SortByBegin(Entries(data_lines, line_prefix,
                                          auto_detect_char, SkipList(skip_values)))
        sas_script == SasScript(columns)
    IN  [script     |-> sas_script,
         written    |-> IF output_path THEN Some(sas_script) ELSE None,
         data_lines |-> data_lines,
         columns    |-> columns]

-----------------------------------------------------------------------------
(* Dictionaries and calls of parse_data_dictionary *)

\* most lines of a generated dictionary
MaxDictLines == 3

HouseholdMarker == <<"H", "O", "U", "S", "E", "H", "O", "L", "D", " ", "R", "E", "C", "O", "R", "D">>
FamilyMarker    == <<"F", "A", "M", "I", "L", "Y", " ", "R", "E", "C", "O", "R", "D">>
NoSuchMarker    == <<"N", "O", "P", "E">>
FixedEntryLine  == <<"D", " ", "F", "I", "X", " ", "1", " ", "2">>

\* the lines dictionaries are made of: the two section headings (one with
\* blanks around it), entries, an entry behind a blank, a line of prose
DictLines ==
    { <<"H", "O", "U", "S", "E", "H", "O", "L", "D", " ", "R", "E", "C", "O", "R", "D">>,
      <<" ", "F", "A", "M", "I", "L", "Y", " ", "R", "E", "C", "O", "R", "D", " ">>,
      <<"D", " ", "H", "I", "D", " ", "3", " ", "3">>,
      <<"D", " ", "A", "M", "T", " ", "2", " ", "1", " ", "(", "0", ":", "9", ")">>,
      <<"X", " ", "N", "O", "T", " ", "1", " ", "1">>,
      <<" ", "D", " ", "A", "-", "B", " ", "1", " ", "6">> }

\* the tokens of a generated entry; an empty begin or range is a token
\* that is not there
EntryNames  == { <<"A", "M", "T">>,
                 <<"h", "I", "d">>,
                 <<"A", "-", "B">>,
                 <<"F", "I", "L", "L", "E", "R">>,
                 <<"X", "-", "C", "A", "T">> }
EntrySizes  == { <<"1">>,
                 <<"2">>,
                 <<"x">> }
EntryBegins == { <<"1">>,
                 <<"3">>,
                 <<"1", ".", "5">>,
                 <<>> }
EntryRanges == { <<>>,
                 <<"(", "0", ":", "9", ")">>,
                 <<"(", "A", ":", "Z", ")">>,
                 <<"(", "-", "1", ":", "9", ".", "5", ")">>,
                 <<"(", "0", "9", ")">>,
                 <<"(", "A", "Z", ")">>,
                 <<"(", "-", ":", "9", ")">>,
                 <<"(", ":", "9", ")">>,
                 <<"(", "(", "1", ":", "B", ")", ")">> }

\* the tokens of a line, one blank between them
RECURSIVE JoinSp(_)
JoinSp(tokens) ==
    IF tokens = <<>> THEN <<>>
    ELSE IF Len(tokens) = 1 THEN tokens[1]
    ELSE Head(tokens) \o Sp \o JoinSp(Tail(tokens))

EntryLine(e) ==
    JoinSp(SelectSeq(<<<<"D">>, e.name, e.size, e.begin, e.range>>,
                     LAMBDA t : t # <<>>))

\* a file of the given lines, each ended by "\n"
FileOf(lines) == Flat([k \in 1..Len(lines) |-> lines[k] \o Nl])

\* a dictionary is up to MaxDictLines lines in any order, or the household
\* heading followed by a fixed entry and one entry of chosen tokens
LinesDict(i, text) ==
    /\ \E n \in 0..MaxDictLines :
          \E ls \in [1..n -> DictLines] :
             /\ i = [kind |-> "lines", lines |-> [k \in 1..n |-> ls[k]]]
             /\ text = FileOf(i.lines)

EntryDict(i, text) ==
    /\ \E name \in EntryNames, size \in EntrySizes, begin \in EntryBegins,
          range \in EntryRanges :
             /\ i = [kind |-> "entry", name |-> name, size |-> size,
                     begin |-> begin, range |-> range]
             /\ text = FileOf(<<HouseholdMarker, FixedEntryLine, EntryLine(i)>>)

DictInit ==
    /\ \/ LinesDict(dd_intent, dd_dict)
       \/ EntryDict(dd_intent, dd_dict)
    /\ dd_call = NoDictCall
    /\ dd_ret = NoDictRet
    /\ PsIdle
    /\ UcIdle
    /\ SdIdle
    /\ IoIdle

FromLines == {StrArg(<<>>), StrArg(HouseholdMarker), ListArg(<<HouseholdMarker>>),
              ListArg(<<NoSuchMarker>>)}
ToLines   == {StrArg(<<>>), StrArg(FamilyMarker), ListArg(<<FamilyMarker>>)}
SkipValues == {NoneArg, StrArg(<<"F", "I", "L", "L", "E", "R">>),
               ListArg(<<<<"X", "_", "C", "A", "T">>, <<"H", "I", "D">>>>)}

\* parse_data_dictionary(dict_path, output_path=..., auto_detect_char=...,
\* from_line=..., to_line=..., skip_values=...), line_prefix at its default
ParseDataDictionary ==
    /\ dd_call.op = "none"
    /\ \E output_path \in BOOLEAN, auto_detect_char \in BOOLEAN,
          from_line \in FromLines, to_line \in ToLines, skip_values \in SkipValues :
          /\ dd_call' = [op |-> "parse_data_dictionary", output_path |-> output_path,
                         auto_detect_char |-> auto_detect_char,
                         line_prefix |-> <<"D">>, from_line |-> from_line,
                         to_line |-> to_line, skip_values |-> skip_values]
          /\ dd_ret' = parse_data_dictionary(dd_dict, output_path, auto_detect_char,
                                             <<"D">>, from_line, to_line, skip_values)
    /\ UNCHANGED <<dd_dict, dd_intent, ps_vars, uc_vars, sd_vars, io_vars>>

DictNext == ParseDataDictionary

SpecDict == DictInit /\ [][DictNext]_vars

-----------------------------------------------------------------------------
(* Properties of parse_data_dictionary *)

DictDone == dd_call.op = "parse_data_dictionary"

\* the lines of the dictionary and their trimmed texts
DictFileLines == ReadLines(dd_dict)
Trimmed(k) == Strip(DictFileLines[k])

\* the markers a caller gave: those of a list, the one of a string, none when
\* the string is empty
Markers(arg) ==
    IF arg.type = "list" THEN {arg.value[k] : k \in 1..Len(arg.value)}
    ELSE IF arg.value = <<>> THEN {} ELSE {arg.value}

\* the first line whose trimmed text is one of the markers; the line after
\* the last when there is none
FirstMarked(markers) ==
    LET marked == {k \in 1..Len(DictFileLines) : Trimmed(k) \in markers}
    IN  IF marked = {} THEN Len(DictFileLines) + 1 ELSE Min(marked)

\* where the section of the call starts and where it stops
SectionFirst ==
    IF Markers(dd_call.from_line) = {} THEN 1 ELSE FirstMarked(Markers(dd_call.from_line))
SectionStop ==
    IF Markers(dd_call.to_line) = {} THEN Len(DictFileLines) + 1
    ELSE FirstMarked(Markers(dd_call.to_line))

\* C17 (as the specification states it): parse_data_dictionary selects
\* exactly the lines that begin with the prefix marker and lie after the
\* first line whose trimmed text equals a start marker and before the first
\* line whose trimmed text equals an end marker; with no start marker
\* selection starts at the top of the file, with no end marker it runs to
\* the end; and this holds for markers passed as a single string as for
\* markers passed as a list of strings.
C17_SelectsBetweenMarkers ==
    DictDone =>
        dd_ret.data_lines =
            SelectSeq(SubSeq(DictFileLines, SectionFirst, SectionStop - 1),
                      LAMBDA l : StartsWith(Strip(l), dd_call.line_prefix))

\* the script of an empty column set: the heading comment, the INPUT keyword
\* and, directly after it, the terminator
EmptyScript == GeneratedHeader \o Nl \o KwInput \o Nl \o Semi

\* C18: when start delimiters are supplied, as a string or as a list, and
\* the trimmed text of no line of the dictionary equals one of them,
\* parse_data_dictionary does not fail: it returns a layout script with an
\* empty column set, INPUT followed directly by the terminator with no column
\* declaration, whatever the end delimiters are, and writes that same script
\* when an output path is given.
C18_UnmatchedDelimitersGiveEmptyScript ==
    ( /\ DictDone
      /\ Markers(dd_call.from_line) # {}
      /\ \A k \in 1..Len(DictFileLines) : Trimmed(k) \notin Markers(dd_call.from_line) )
    => /\ dd_ret.columns = <<>>
       /\ dd_ret.script = EmptyScript
       /\ dd_ret.written = IF dd_call.output_path THEN Some(EmptyScript) ELSE None

\* C18 happens: a dictionary with a heading and two entries has been parsed
\* for a section whose start and end delimiters match none of its lines, and
\* the empty script has been returned and written
C18_Witness ==
    /\ DictDone
    /\ dd_dict = FileOf(<<HouseholdMarker,
                          <<"D", " ", "H", "I", "D", " ", "3", " ", "3">>,
                          <<"D", " ", "A", "M", "T", " ", "2", " ", "1", " ",
                            "(", "0", ":", "9", ")">>>>)
    /\ dd_call.from_line = ListArg(<<NoSuchMarker>>)
    /\ dd_call.to_line = ListArg(<<FamilyMarker>>)
    /\ dd_call.output_path
    /\ dd_ret.script = EmptyScript
    /\ dd_ret.written = Some(EmptyScript)

\* the name under which the chosen entry of the dictionary is listed, and
\* the columns listed under it
EntryName == ReplaceChar(dd_intent.name, "-", "_")
EntryColumns == SelectSeq(dd_ret.columns, LAMBDA c : c.varname = EntryName)

\* the name holds one of the markers, whatever the case of its letters
NameHasMarker(name) ==
    \E marker \in CharIndicators : Contains(Upper(name), marker)

\* the annotation is a colon-separated pair of bounds, outer parentheses
\* removed, and one bound holds a character that is no digit, dot or hyphen
HasForeignBound(annotation) ==
    LET bounds == SplitOn(StripChars(annotation, {"(", ")"}), ":")
    IN  /\ Contains(annotation, <<":">>)
        /\ \E k \in 1..Len(bounds) :
              \E j \in 1..Len(bounds[k]) : bounds[k][j] \notin DigitSet \cup {".", "-"}

\* C19 (as the specification states it): with auto-detection on, an entry
\* is classified as text if and only if its name, case-insensitively,
\* contains one of the markers ID, CODE, NAME, DESC, TYPE, CAT, CLASS, GROUP,
\* STATUS, FLAG, or its value-range annotation has a bound containing a
\* character that is not a digit, dot or hyphen; an entry with no
\* annotation, an annotation without a colon, or bounds made only of
\* digits, dots and hyphens, and no marker in its name, is numeric.
C19_TextIffMarkerOrForeignBound ==
    ( /\ DictDone
      /\ dd_call.auto_detect_char
      /\ dd_intent.kind = "entry" )
    => \A k \in 1..Len(EntryColumns) :
          EntryColumns[k].is_char <=>
              \/ NameHasMarker(dd_intent.name)
              \/ HasForeignBound(dd_intent.range)

\* the names the caller wants skipped
SkipSet(arg) ==
    CASE arg.type = "none" -> {}
      [] arg.type = "str"  -> {arg.value}
      [] OTHER             -> {arg.value[k] : k \in 1..Len(arg.value)}

\* the line was selected
Selected(line) ==
    \E k \in 1..Len(dd_ret.data_lines) : dd_ret.data_lines[k] = line \o Nl

\* the tokens of the chosen entry behind the prefix
EntryTokens ==
    SelectSeq(<<dd_intent.name, dd_intent.size, dd_intent.begin, dd_intent.range>>,
              LAMBDA t : t # <<>>)

\* the columns listed under a name are the one with this size and begin
ListedOnce(name, size, begin) ==
    LET listed == SelectSeq(dd_ret.columns, LAMBDA c : c.varname = name)
    IN  /\ Len(listed) = 1
        /\ listed[1].size = size
        /\ listed[1].begin = begin
        /\ listed[1].end = begin + size - 1

\* C20: for each selected dictionary line, after removing the prefix and
\* splitting on whitespace, an entry is produced with name = first token with
\* every '-' replaced by '_', size = second token, begin = third token and
\* end = begin + size - 1; a line with fewer than three tokens or a
\* non-integer size or position produces no entry and no error; an entry
\* whose hyphen-replaced name is in the caller's skip set is dropped, and no
\* other entry is: the fixed entry before it is listed whenever selected.
C20_EntryPerSelectedLine ==
    ( DictDone /\ dd_intent.kind = "entry" )
    => /\ IF /\ Selected(EntryLine(dd_intent))
             /\ Len(EntryTokens) >= 3
             /\ IsDigit(EntryTokens[2])
             /\ IsDigit(EntryTokens[3])
             /\ EntryName \notin SkipSet(dd_call.skip_values)
          THEN ListedOnce(EntryName, IntOf(EntryTokens[2]), IntOf(EntryTokens[3]))
          ELSE EntryColumns = <<>>
       /\ IF Selected(FixedEntryLine)
          THEN /\ ListedOnce(<<"F", "I", "X">>, 1, 2)
               /\ Len(dd_ret.columns) = 1 + Len(EntryColumns)
          ELSE dd_ret.columns = <<>>

\* C20 happens: the entry A-B of size 2 at position 3 has been selected and
\* is listed as A_B from 3 to 4 behind the fixed entry, FILLER being the
\* name to skip
C20_Witness ==
    /\ DictDone
    /\ dd_intent.kind = "entry"
    /\ dd_intent.name = <<"A", "-", "B">>
    /\ dd_intent.size = <<"2">>
    /\ dd_intent.begin = <<"3">>
    /\ dd_call.skip_values = StrArg(<<"F", "I", "L", "L", "E", "R">>)
    /\ Selected(EntryLine(dd_intent))
    /\ Len(dd_ret.columns) = 2
    /\ dd_ret.columns[2].varname = <<"A", "_", "B">>
    /\ dd_ret.columns[2].begin = 3
    /\ dd_ret.columns[2].end = 4

-----------------------------------------------------------------------------
(* Properties of the comment stripper: comments over several lines *)

\* the lines the first call was given, and the first of them that holds the
\* opening marker
UcInput == ReadLines(uc_text)
UcOpeners == {k \in 1..Len(UcInput) : Contains(UcInput[k], uc_style[1])}
UcOpenLine == Min(UcOpeners)
UcOpenPos == Find(UcInput[UcOpenLine], uc_style[1])

\* that marker opens a comment which its own line does not close
UcLeftOpen ==
    /\ UcOpeners # {}
    /\ FindFrom(UcInput[UcOpenLine], uc_style[2], UcOpenPos + Len(uc_style[1])) = 0

\* the later lines that hold the closing marker
UcClosers == {k \in (UcOpenLine + 1)..Len(UcInput) : Contains(UcInput[k], uc_style[2])}

\* C25: _uncomment_sas never changes the number of lines and leaves the
\* opening marker in no line.  For a comment left open on line i and closed
\* on a later line j it keeps of line i exactly the text before the opening
\* marker, empties every line strictly between i and j, and keeps of line j
\* exactly the text after the closing marker, which is scanned again with
\* the lines after it; when no later line holds the closing marker, every
\* line after i becomes empty.
C25_OpenCommentBlanksLines ==
    uc_calls >= 1 =>
        /\ Len(uc_first) = Len(UcInput)
        /\ \A k \in 1..Len(uc_first) : ~Contains(uc_first[k], uc_style[1])
        /\ UcLeftOpen =>
              /\ \A k \in 1..(UcOpenLine - 1) : uc_first[k] = UcInput[k]
              /\ uc_first[UcOpenLine] = Take(UcInput[UcOpenLine], UcOpenPos - 1)
              /\ IF UcClosers = {}
                 THEN \A k \in (UcOpenLine + 1)..Len(UcInput) : uc_first[k] = <<>>
                 ELSE LET j    == Min(UcClosers)
                          rest == Drop(UcInput[j],
                                       Find(UcInput[j], uc_style[2]) + Len(uc_style[2]) - 1)
                      IN  /\ \A k \in (UcOpenLine + 1)..(j - 1) : uc_first[k] = <<>>
                          /\ SubSeq(uc_first, j, Len(UcInput))
                                 = uncomment_sas(<<rest>> \o SubSeq(UcInput, j + 1, Len(UcInput)),
                                                 uc_style[1], uc_style[2])

\* C25 happens: a comment opened on the first line and closed on the third
\* has been stripped; the line between them, which held text, is empty and
\* the third line keeps the text behind the closing marker
C25_Witness ==
    /\ uc_calls >= 1
    /\ UcLeftOpen
    /\ UcOpenLine = 1
    /\ UcClosers # {}
    /\ Min(UcClosers) = 3
    /\ UcInput[2] # Nl
    /\ uc_first[2] = <<>>
    /\ uc_first[3] # <<>>

-----------------------------------------------------------------------------
(* Properties of parse_sas_script: the declaration block *)

\* the stripped lines of the script put one after the other, and in that
\* text the place of the first INPUT and of the first ";" behind it
StrippedText == Flat(StrippedLines(script, 1))
KeywordAt == Find(StrippedText, KwInput)
TerminatorAt == FindFrom(StrippedText, <<";">>, KeywordAt + Len(KwInput))

\* the text after the keyword and before the terminator
DeclarationText == SubSeq(StrippedText, KeywordAt + Len(KwInput), TerminatorAt - 1)

\* C26 (as the specification states it): the declaration block tokenized by
\* parse_sas_script is exactly the text after the first INPUT and before the
\* first ";" that follows it; text before the keyword on the keyword's line
\* and text after the terminator on the terminator's line contribute no
\* token.
C26_BlockBetweenKeywordAndTerminator ==
    (ParsedFromTop /\ KeywordAt # 0 /\ TerminatorAt # 0)
        => ret.tokens = Tokenize(<<DeclarationText>>)

-----------------------------------------------------------------------------
(* Properties of parse_sas_script: the formats of the "@" dialect *)

\* the (width, scale) a format of the "@" dialect stands for: w, CHARw give
\* (w, 1), Fw.d and w.d give (w, 10^-d)
FormatScale(d) ==
    IF d.fmt \in {"F", "wd"} THEN [num |-> 1, den |-> Pow10(d.dec)]
    ELSE [num |-> 1, den |-> 1]

\* the columns called name
ColumnsNamed(name) == SelectSeq(ret.columns, LAMBDA c : c.varname = Some(name))

\* C27: in the "@" dialect the format of each placement parses without
\* error in every supported form: a bare integer w gives width w and scale
\* 1, Fw.d and w.d give width w and scale 10^-d, CHARw gives width w and
\* scale 1, and a "$" between name and format sets is_char and changes
\* neither width nor scale.
C27_AtFormatsParse ==
    (ParsedPlain /\ intent.dialect = "at" /\ intent.shape = "two_line") =>
        /\ ret.raised = ""
        /\ \A k \in 1..Len(intent.decls) :
              LET d     == intent.decls[k]
                  named == ColumnsNamed(d.name)
              IN  /\ Len(named) = 1
                  /\ named[1].width = d.span
                  /\ named[1].divisor = FormatScale(d)
                  /\ named[1].is_char = d.dollar

\* C27 happens: a placement with "$" and the format Fw.1 stands next to one
\* with a bare width and no "$", and both have been parsed
C27_Witness ==
    /\ ParsedPlain /\ intent.dialect = "at" /\ intent.shape = "two_line"
    /\ Len(intent.decls) = 2
    /\ intent.decls[1].fmt = "F" /\ intent.decls[1].dec = 1 /\ intent.decls[1].dollar
    /\ intent.decls[2].fmt = "plain" /\ ~intent.decls[2].dollar
    /\ ret.raised = ""
    /\ ColumnsNamed(intent.decls[1].name)[1].divisor = [num |-> 1, den |-> 10]
    /\ ColumnsNamed(intent.decls[1].name)[1].is_char
    /\ ColumnsNamed(intent.decls[2].name)[1].divisor = [num |-> 1, den |-> 1]

-----------------------------------------------------------------------------
(* Properties of parse_sas_script: names and widths *)

\* C30 (as the specification states it): in every layout parse_sas_script
\* returns, a ColumnSpec has no name if and only if its width is negative,
\* and a named ColumnSpec has a strictly positive width, for the
\* declarations of all three dialects, range declarations whose end is at
\* or before their start among them.
C30_NamedIffPositiveWidth ==
    (call.op = "parse_sas_script" /\ ret.raised = "") =>
        \A k \in 1..Len(ret.columns) :
            /\ ret.columns[k].varname = None <=> ret.columns[k].width < 0
            /\ ret.columns[k].varname # None => ret.columns[k].width > 0

-----------------------------------------------------------------------------
(* _cps_asec_1988_2018: the layout script of a record type is written from *)
(* the dictionary and read back with the data of that record type          *)

HouseholdStar == <<"*", "H", "o", "u", "s", "e", "h", "o", "l", "d", " ",
                   "R", "e", "c", "o", "r", "d">>
FamilyStar    == <<"*", "F", "a", "m", "i", "l", "y", " ", "R", "e", "c", "o", "r", "d">>
PersonMarker  == <<"P", "E", "R", "S", "O", "N", " ", "R", "E", "C", "O", "R", "D">>
PersonStar    == <<"*", "P", "e", "r", "s", "o", "n", " ", "R", "e", "c", "o", "r", "d">>
Filler        == <<"F", "I", "L", "L", "E", "R">>

RecordTypes == {"hhld", "person", "family"}

\* the from_line and to_line of the three calls of lines 140-162
SectionFrom(typei) ==
    CASE typei = "hhld"   -> ListArg(<<HouseholdMarker, HouseholdStar>>)
      [] typei = "person" -> ListArg(<<PersonMarker, PersonStar>>)
      [] OTHER            -> ListArg(<<FamilyMarker, FamilyStar>>)
SectionTo(typei) ==
    CASE typei = "hhld"   -> ListArg(<<FamilyMarker, FamilyStar>>)
      [] typei = "person" -> StrArg(<<>>)
      [] OTHER            -> ListArg(<<PersonMarker, PersonStar>>)

\* parse_data_dictionary(path_dictionary, output_path=..., from_line=...,
\* to_line=..., skip_values="FILLER") for one record type
WriteSectionScript ==
    /\ dd_call.op = "none"
    /\ \E typei \in RecordTypes :
          /\ dd_call' = [op |-> "parse_data_dictionary", output_path |-> TRUE,
                         auto_detect_char |-> TRUE, line_prefix |-> <<"D">>,
                         from_line |-> SectionFrom(typei),
                         to_line |-> SectionTo(typei),
                         skip_values |-> StrArg(Filler)]
          /\ dd_ret' = parse_data_dictionary(dd_dict, TRUE, TRUE, <<"D">>,
                                             SectionFrom(typei), SectionTo(typei),
                                             StrArg(Filler))
    /\ UNCHANGED <<dd_dict, dd_intent, ps_vars, uc_vars, sd_vars, io_vars>>

\* read_sas_fwf(data of the record type, sas_script_path=the script written)
ReadSectionScript ==
    /\ dd_call.op = "parse_data_dictionary"
    /\ dd_ret.written # None
    /\ call.op = "none"
    /\ script' = dd_ret.written[1]
    /\ \E parsed \in {parse_sas_script(dd_ret.written[1], 1, None)}, data \in DataFiles :
          \E out \in {Decode(parsed, data, 0, None, None)} :
          /\ call' = [NoCall EXCEPT !.op = "read_sas_fwf", !.data = data]
          /\ ret' = [parsed @@ NoRet EXCEPT !.raised = out.raised,
                         !.frame = out.frame, !.warnings = out.warnings]
    /\ UNCHANGED <<intent, uc_vars, sd_vars, dd_vars, io_vars>>

LayoutNext ==
    \/ WriteSectionScript
    \/ ReadSectionScript

SpecLayout == DictInit /\ [][LayoutNext]_vars

-----------------------------------------------------------------------------
(* Properties of the layout script read back *)

\* the script of the section has been written and read back
ReadBack == dd_call.op = "parse_data_dictionary" /\ call.op = "read_sas_fwf"

\* the entries of the script are in non-decreasing order of begin
EntriesAscend ==
    \A k \in 1..(Len(dd_ret.columns) - 1) :
        dd_ret.columns[k].begin <= dd_ret.columns[k + 1].begin

\* the layout read back holds the entry: one ColumnSpec of its name, of its
\* size and type, with begin - 1 bytes of columns before it
ReadBackAs(entry) ==
    LET at == {j \in 1..Len(ret.columns) : ret.columns[j].varname = Some(entry.varname)}
    IN  /\ Cardinality(at) = 1
        /\ \A j \in at :
              /\ ret.columns[j].width = entry.size
              /\ ret.columns[j].is_char = entry.is_char
              /\ SumAbsWidth(SubSeq(ret.columns, 1, j - 1)) = entry.begin - 1

\* C21 (as the specification states it): the script parse_data_dictionary
\* emits lists its entries in non-decreasing order of begin and round-trips
\* through parse_sas_script in the range dialect: for every set of emitted
\* entries, a first entry that begins after position 1 among them, the
\* layout read back holds for each entry one named ColumnSpec with the
\* entry's name, its size as width, its inferred type as is_char, and
\* ColumnSpecs before it whose absolute widths sum to begin - 1; the
\* value-range comments change nothing.
C21_ScriptRoundTrips ==
    ReadBack =>
        /\ EntriesAscend
        /\ \A k \in 1..Len(dd_ret.columns) : ReadBackAs(dd_ret.columns[k])

-----------------------------------------------------------------------------
(* cache_manager.py: FileCacheManager.  Paths are written relative to the  *)
(* cache directory, which is the dirname of every save path here, and in   *)
(* the posix form Path(...).as_posix() gives them.                         *)

EndsWith(text, suffix) ==
    /\ Len(suffix) <= Len(text)
    /\ SubSeq(text, Len(text) - Len(suffix) + 1, Len(text)) = suffix

DotParquet == <<".", "p", "a", "r", "q", "u", "e", "t">>
DotZip     == <<".", "z", "i", "p">>

\* the values a caller passes to an API method: Python ints, bools and strs
PyInt(n)  == [t |-> "int", v |-> n]
PyBool(b) == [t |-> "bool", v |-> b]
PyStr(s)  == [t |-> "str", v |-> s]

\* repr(x)
ReprStr(s) == <<"'">> \o s \o <<"'">>
Repr(x) ==
    CASE x.t = "int"  -> StrOfInt(x.v)
      [] x.t = "bool" -> IF x.v THEN <<"T", "r", "u", "e">> ELSE <<"F", "a", "l", "s", "e">>
      [] OTHER        -> ReprStr(x.v)

\* repr of the tuple args: "()", "(x,)", "(x, y)"
RECURSIVE ReprItems(_)
ReprItems(args) ==
    IF args = <<>> THEN <<>>
    ELSE IF Len(args) = 1 THEN Repr(args[1])
    ELSE Repr(args[1]) \o <<",", " ">> \o ReprItems(Tail(args))
ReprTuple(args) ==
    <<"(">> \o ReprItems(args) \o (IF Len(args) = 1 THEN <<",">> ELSE <<>>) \o <<")">>

\* repr of api_args: None, or {'args': args, 'kwargs': kwargs} with no
\* keyword argument
ReprApiArgs(api_args) ==
    IF api_args = None THEN <<"N", "o", "n", "e">>
    ELSE <<"{", "'", "a", "r", "g", "s", "'", ":", " ">> \o ReprTuple(api_args[1]) \o <<",", " ", "'", "k", "w", "a", "r", "g", "s", "'", ":", " ", "{", "}", "}">>

\* lines 36-38: the __name__ of api_call, "" without one
CallName(api_call) == IF api_call = None THEN <<>> ELSE api_call[1].name

\* lines 39-45: str(dict(url=..., api_call=call_name, api_args=...))
CallSignature(url, api_call, api_args) ==
    <<"{", "'", "u", "r", "l", "'", ":", " ">> \o ReprStr(url)
        \o <<",", " ", "'", "a", "p", "i", "_", "c", "a", "l", "l", "'", ":", " ">> \o ReprStr(CallName(api_call))
        \o <<",", " ", "'", "a", "p", "i", "_", "a", "r", "g", "s", "'", ":", " ">> \o ReprApiArgs(api_args) \o <<"}">>

\* hashlib.sha256(...).hexdigest(): a text that differs for texts that
\* differ; it starts with a mark no signature starts with
Sha256(text) == <<"#">> \o text

generate_source_hash(url, api_call, api_args) ==
    Sha256(CallSignature(url, api_call, api_args))

\* __init__: the hash is taken once, from the arguments
FileCacheManager(path_save, url, api_call, api_args) ==
    [path_save |-> path_save, url |-> url, api_call |-> api_call,
     api_args |-> api_args, hash |-> generate_source_hash(url, api_call, api_args)]

\* _get_metadata_path: ".<basename>.hash" next to the save path
get_metadata_path(self) == <<".">> \o self.path_save \o <<".", "h", "a", "s", "h">>

\* os.path.exists, os.path.isdir
Exists(nodes, path) == \E kind \in {"file", "dir"} : <<path, kind>> \in nodes
IsDir(nodes, path) == <<path, "dir">> \in nodes

\* os.path.splitext(path)[0]: the path up to its last dot, the whole path
\* when it has no dot behind its first character
SplitExtRoot(path) ==
    LET dots == {k \in 2..Len(path) : path[k] = "."}
    IN  IF dots = {} THEN path ELSE Take(path, Max(dots) - 1)

is_unzipped_folder_present(self, nodes) ==
    /\ EndsWith(Lower(self.path_save), DotZip)
    /\ IsDir(nodes, SplitExtRoot(self.path_save))

\* a variant of is_cached that is content with any hash file
IsCachedAnyHash(self, nodes, meta) ==
    /\ \/ Exists(nodes, self.path_save)
       \/ Exists(nodes, self.path_save \o DotParquet)
       \/ is_unzipped_folder_present(self, nodes) /\ EndsWith(self.url, DotZip)
    /\ get_metadata_path(self) \in DOMAIN meta

is_cached(self, nodes, meta) ==
    /\ \/ Exists(nodes, self.path_save)
       \/ Exists(nodes, self.path_save \o DotParquet)
       \/ is_unzipped_folder_present(self, nodes) /\ EndsWith(self.url, DotZip)
    /\ get_metadata_path(self) \in DOMAIN meta
    /\ Strip(meta[get_metadata_path(self)]) = self.hash

\* a mapping with one key set, the others kept
SetKey(map, key, value) ==
    [k \in DOMAIN map \cup {key} |-> IF k = key THEN value ELSE map[k]]

\* save_metadata: the hash file holds the manager's hash
save_metadata(self, meta) == SetKey(meta, get_metadata_path(self), self.hash)

-----------------------------------------------------------------------------
(* Managers on the cache directory: construction, save_metadata, is_cached *)
(* and the writes of their callers that put the data in place             *)

MaxSaves == 2

SavePathS   == <<"s">>
SavePathZip == <<"a", ".", "z", "i", "p">>
SavePaths   == {SavePathS, SavePathZip}

UrlPlain == <<"u">>
UrlZip   == <<"v", ".", "z", "i", "p">>

\* callables: two of the same __name__ in different modules, and a third
Download1 == [module |-> "m1", name |-> <<"d", "o", "w", "n", "l", "o", "a", "d">>]
Download2 == [module |-> "m2", name |-> <<"d", "o", "w", "n", "l", "o", "a", "d">>]
Geo       == [module |-> "m1", name |-> <<"g", "e", "o">>]

\* the requests managers are made for: (url, api_call, api_args)
MakeRequest(url, api_call, api_args) ==
    [url |-> url, api_call |-> api_call, api_args |-> api_args]
Requests ==
    { MakeRequest(UrlPlain, None, None),
      MakeRequest(UrlZip, None, None),
      MakeRequest(<<>>, Some(Download1), Some(<<PyInt(1)>>)),
      MakeRequest(<<>>, Some(Download2), Some(<<PyInt(1)>>)),
      MakeRequest(<<>>, Some(Download1), Some(<<PyBool(TRUE)>>)),
      MakeRequest(<<>>, Some(Geo), Some(<<PyStr(<<"1">>)>>)) }

RequestOf(self) == MakeRequest(self.url, self.api_call, self.api_args)

MgrIds == {"a", "b"}

\* two managers constructed on an empty cache directory
CacheInit ==
    /\ FsIdle
    /\ \E pa \in SavePaths, pb \in SavePaths, ra \in Requests, rb \in Requests :
          cm_mgrs = [id \in MgrIds |->
                        IF id = "a"
                        THEN FileCacheManager(pa, ra.url, ra.api_call, ra.api_args)
                        ELSE FileCacheManager(pb, rb.url, rb.api_call, rb.api_args)]
    /\ cm_saved = NoKeys
    /\ cm_asked = None
    /\ LdIdle
    /\ AfIdle
    /\ ZpIdle
    /\ PsIdle
    /\ UcIdle
    /\ SdIdle
    /\ DdIdle

\* the files and folders is_cached looks for, as the callers write them:
\* the save path as a folder (load.py 141, 178) or a file (api_factory.py
\* 94), the path with ".parquet" (load.py 153-162), and what stands at the
\* path without its extension
ArtifactsOf(path) ==
    { <<path, "dir">>, <<path, "file">>, <<path \o DotParquet, "file">> }
        \cup (IF SplitExtRoot(path) # path
              THEN {<<SplitExtRoot(path), "dir">>, <<SplitExtRoot(path), "file">>}
              ELSE {})

WriteArtifact ==
    /\ \E id \in MgrIds : \E node \in ArtifactsOf(cm_mgrs[id].path_save) :
          /\ ~Exists(fs_nodes, node[1])
          /\ fs_nodes' = fs_nodes \cup {node}
    /\ cm_asked' = None
    /\ UNCHANGED <<fs_meta, cm_mgrs, cm_saved, ps_vars, uc_vars, sd_vars, dd_vars, ld_vars, af_vars, zp_vars>>

SaveMetadata(id) ==
    /\ \A path \in DOMAIN cm_saved : Len(cm_saved[path]) < MaxSaves
    /\ fs_meta' = save_metadata(cm_mgrs[id], fs_meta)
    /\ cm_saved' = SetKey(cm_saved, cm_mgrs[id].path_save,
                          (IF cm_mgrs[id].path_save \in DOMAIN cm_saved
                           THEN cm_saved[cm_mgrs[id].path_save] ELSE <<>>)
                              \o <<RequestOf(cm_mgrs[id])>>)
    /\ cm_asked' = None
    /\ UNCHANGED <<fs_nodes, cm_mgrs, ps_vars, uc_vars, sd_vars, dd_vars, ld_vars, af_vars, zp_vars>>

IsCached(id) ==
    /\ cm_asked = None
    /\ cm_asked' = Some([mgr |-> id,
                         cached |-> is_cached(cm_mgrs[id], fs_nodes, fs_meta)])
    /\ UNCHANGED <<fs_nodes, fs_meta, cm_mgrs, cm_saved, ps_vars, uc_vars, sd_vars, dd_vars, ld_vars, af_vars, zp_vars>>

CacheNext ==
    \/ WriteArtifact
    \/ \E id \in MgrIds : SaveMetadata(id)
    \/ \E id \in MgrIds : IsCached(id)

SpecCache == CacheInit /\ [][CacheNext]_vars

-----------------------------------------------------------------------------
(* Properties of FileCacheManager *)

\* two Python values are equal (==): a bool counts as the int 0 or 1
PyEq(x, y) ==
    IF x.t = "str" \/ y.t = "str" THEN x = y
    ELSE (IF x.t = "bool" THEN (IF x.v THEN 1 ELSE 0) ELSE x.v)
             = (IF y.t = "bool" THEN (IF y.v THEN 1 ELSE 0) ELSE y.v)

\* two requests are the same request: the same url, the same call name and
\* equal call arguments
SameRequest(r, q) ==
    /\ r.url = q.url
    /\ CallName(r.api_call) = CallName(q.api_call)
    /\ (r.api_args = None) = (q.api_args = None)
    /\ r.api_args # None =>
          /\ Len(r.api_args[1]) = Len(q.api_args[1])
          /\ \A k \in 1..Len(r.api_args[1]) : PyEq(r.api_args[1][k], q.api_args[1][k])

\* a data artifact stands at the save path: the path itself, the path with
\* ".parquet", or the unzipped folder of a .zip path
ArtifactAt(path) ==
    \/ \E kind \in {"file", "dir"} : <<path, kind>> \in fs_nodes
    \/ \E kind \in {"file", "dir"} : <<path \o DotParquet, kind>> \in fs_nodes
    \/ /\ Len(path) >= 4
       /\ Lower(SubSeq(path, Len(path) - 3, Len(path))) = DotZip
       /\ <<SubSeq(path, 1, Len(path) - 4), "dir">> \in fs_nodes

\* the manager asked last, and whether it said "cached"
Asked == cm_mgrs[cm_asked[1].mgr]
SaidCached == cm_asked # None /\ cm_asked[1].cached

\* C22: is_cached() returns true only if a data artifact exists at the save
\* path and the hash file next to it holds the hash of the manager's
\* request; after any sequence of save_metadata() calls by managers that
\* share a save path, is_cached() is true only for a manager whose request
\* is that of the last save_metadata() call on the path, so a request with
\* another url or other arguments is not served what an earlier request
\* left there.
C22_CachedOnlyForLastSaved ==
    SaidCached =>
        /\ ArtifactAt(Asked.path_save)
        /\ <<".">> \o Asked.path_save \o <<".", "h", "a", "s", "h">> \in DOMAIN fs_meta
        /\ fs_meta[<<".">> \o Asked.path_save \o <<".", "h", "a", "s", "h">>]
               = Sha256(CallSignature(Asked.url, Asked.api_call, Asked.api_args))
        /\ Asked.path_save \in DOMAIN cm_saved
        /\ SameRequest(cm_saved[Asked.path_save][Len(cm_saved[Asked.path_save])],
                       RequestOf(Asked))

\* C22 happens: two managers share the save path "s"; the one for the url
\* "v.zip" saved its hash first, the one for the url "u" saved after it, the
\* parquet file stands at "s.parquet", and the manager for "u" has been
\* asked and said "cached"
C22_Witness ==
    /\ SaidCached
    /\ cm_asked[1].mgr = "a"
    /\ cm_mgrs["a"].path_save = SavePathS /\ cm_mgrs["b"].path_save = SavePathS
    /\ cm_mgrs["a"].url = UrlPlain /\ cm_mgrs["b"].url = UrlZip
    /\ SavePathS \in DOMAIN cm_saved
    /\ cm_saved[SavePathS] = <<RequestOf(cm_mgrs["b"]), RequestOf(cm_mgrs["a"])>>
    /\ fs_nodes = {<<SavePathS \o DotParquet, "file">>}

-----------------------------------------------------------------------------
(* load.py: load_from_url.  File names stand for the paths pooch gives the *)
(* downloaded files inside the temp folder.                                *)

MaxLoads == 2

\* Path.suffix and Path.stem of a file name
Suffix(name) ==
    LET dots == {k \in 2..Len(name) : name[k] = "."}
    IN  IF dots = {} THEN <<>> ELSE Drop(name, Max(dots) - 1)
Stem(name) == SplitExtRoot(name)

\* _is_data_file
DataExtensions == {<<".", "c", "s", "v">>, <<".", "d", "t", "a">>, <<".", "s", "a", "s", "7", "b", "d", "a", "t">>, <<".", "s", "a", "v">>, <<".", "p", "a", "r", "q", "u", "e", "t">>,
                   <<".", "x", "l", "s", "x">>, <<".", "x", "l", "s">>}
is_data_file(name) == Lower(Suffix(name)) \in DataExtensions

\* hashlib.md5(url.encode()).hexdigest()[:16]: a name that differs for urls
\* that differ
Md5Name(url) == <<"~">> \o url

\* line 96: cache_dir / "temp" / fcm.hash[:8]; the eight digits differ for
\* the requests made here
TempDir(fcm) == <<"t", "e", "m", "p", "/">> \o fcm.hash

\* lines 92, 153: path_save with ".parquet" unless it ends with it
ParquetPath(path_save) ==
    IF EndsWith(path_save, DotParquet) THEN path_save ELSE path_save \o DotParquet

InFolder(dir, name) == dir \o <<"/">> \o name

\* the elements of a list, as a set
Items(list) == {list[k] : k \in 1..Len(list)}

\* lines 86-93: what a cached call returns: the parquet files of the folder
\* when path_save is one, else the single parquet file
CachedValue(path_save, nodes) ==
    IF IsDir(nodes, path_save)
    THEN {node[1] : node \in {n \in nodes : /\ StartsWith(n[1], path_save \o <<"/">>)
                                            /\ EndsWith(n[1], DotParquet)}}
    ELSE {ParquetPath(path_save)}

\* the urls asked for: a csv file, a text file, a zip archive
UrlCsv == <<"u", ".", "c", "s", "v">>
UrlTxt == <<"w", ".", "t", "x", "t">>
LoadUrls == {UrlCsv, UrlTxt, UrlZip}
SaveNames == {<<>>, SavePathS}

\* what pooch.retrieve hands back: the file of the url, or the files the
\* archive held when it was fetched
Downloaded(url) ==
    IF EndsWith(Lower(url), DotZip)
    THEN { <<<<"d", ".", "c", "s", "v">>>>, <<<<"d", ".", "c", "s", "v">>, <<"e", ".", "D", "T", "A">>>>, <<<<"r", ".", "t", "x", "t">>>>,
           <<<<"d", ".", "c", "s", "v">>, <<"r", ".", "t", "x", "t">>>> }
    ELSE { <<url>> }

\* the cache directory as a session finds it: empty, or holding the hash
\* file of a request to the save name "s" whose data is no longer there
LoadInit ==
    /\ fs_nodes = {}
    /\ \/ fs_meta = NoKeys
       \/ \E url \in LoadUrls :
             fs_meta = save_metadata(FileCacheManager(SavePathS, url, None, None), NoKeys)
    /\ CmIdle
    /\ LdIdle
    /\ AfIdle
    /\ ZpIdle
    /\ PsIdle
    /\ UcIdle
    /\ SdIdle
    /\ DdIdle

\* lines 62-93: the call up to the cache check
LoadFromUrl ==
    /\ ld_pc \in {"idle", "returned", "raised"}
    /\ ld_hist.calls < MaxLoads
    /\ \E url \in LoadUrls, save_name \in SaveNames,
          force_reload \in BOOLEAN, no_data_error \in BOOLEAN :
       \E path_save \in {IF save_name = <<>> THEN Md5Name(url) ELSE save_name} :
       \E fcm \in {FileCacheManager(path_save, url, None, None)} :
       \E cached \in {is_cached(fcm, fs_nodes, fs_meta)} :
          /\ ld_call' = [url |-> url, save_name |-> save_name,
                         force_reload |-> force_reload,
                         no_data_error |-> no_data_error]
          /\ ld_frame' = [NoFrame EXCEPT !.fcm = Some(fcm), !.path_save = path_save]
          /\ ld_hist' = [calls |-> ld_hist.calls + 1,
                         prev |-> IF ld_pc = "idle" THEN None
                                  ELSE Some([call |-> ld_call, how |-> ld_ret.how]),
                         meta |-> fs_meta, cached |-> cached, retrieved |-> 0]
          /\ IF cached /\ ~force_reload
             THEN /\ ld_pc' = "returned"
                  /\ ld_ret' = [how |-> "cache",
                                value |-> CachedValue(path_save, fs_nodes)]
             ELSE /\ ld_pc' = "try"
                  /\ ld_ret' = NoLoadRet
    /\ UNCHANGED <<fs_vars, cm_vars, ps_vars, uc_vars, sd_vars, dd_vars, af_vars, zp_vars>>

\* lines 96-97: the temp folder of the request
MakeTempDir ==
    /\ ld_pc = "try"
    /\ ld_frame' = [ld_frame EXCEPT !.temp_dir = Some(TempDir(ld_frame.fcm[1]))]
    /\ fs_nodes' = fs_nodes \cup {<<TempDir(ld_frame.fcm[1]), "dir">>}
    /\ ld_pc' = "retrieve"
    /\ UNCHANGED <<fs_meta, ld_call, ld_ret, ld_hist, cm_vars, ps_vars, uc_vars, sd_vars, dd_vars, af_vars, zp_vars>>

\* lines 100-134: the download, a second time with a user agent when the
\* first fails, and the sorting of the files; or both attempts fail
Retrieve ==
    /\ ld_pc = "retrieve"
    /\ ld_hist' = [ld_hist EXCEPT !.retrieved = 1]
    /\ \/ /\ ld_frame' = [ld_frame EXCEPT !.exc = "download"]
          /\ ld_pc' = "finally"
       \/ \E downloaded_files \in Downloaded(ld_call.url) :
             /\ ld_frame' = [ld_frame EXCEPT
                    !.data_files = SelectSeq(downloaded_files, is_data_file),
                    !.other_files = SelectSeq(downloaded_files,
                                              LAMBDA f : ~is_data_file(f))]
             /\ ld_pc' = "organize"
    /\ UNCHANGED <<fs_vars, ld_call, ld_ret, cm_vars, ps_vars, uc_vars, sd_vars, dd_vars, af_vars, zp_vars>>

\* lines 136-147: no data file
NoDataFiles ==
    /\ ld_pc = "organize"
    /\ ld_frame.data_files = <<>>
    /\ IF ld_call.no_data_error /\ ld_frame.other_files # <<>>
       THEN /\ ld_frame' = [ld_frame EXCEPT !.exc = "ValueError"]
            /\ UNCHANGED <<fs_nodes, ld_ret>>
       ELSE /\ fs_nodes' = fs_nodes \cup {<<ld_frame.path_save, "dir">>}
                    \cup {<<InFolder(ld_frame.path_save, f), "file">> :
                             f \in Items(ld_frame.other_files)}
            /\ ld_ret' = [how |-> "files",
                          value |-> {InFolder(ld_frame.path_save, f) :
                                        f \in Items(ld_frame.other_files)}]
            /\ UNCHANGED ld_frame
    /\ ld_pc' = "finally"
    /\ UNCHANGED <<fs_meta, ld_call, ld_hist, cm_vars, ps_vars, uc_vars, sd_vars, dd_vars, af_vars, zp_vars>>

\* how a conversion to parquet ends: done, _read_file raises, or the write
\* raises and leaves no file or a part of it
Conversions == {"done", "read_raises", "write_raises", "write_raises_part"}

\* lines 150-175, the files and the metadata after them
ConvertedSingle(how, self, path_save, other_files, nodes, meta) ==
    [nodes |-> IF how \in {"done", "write_raises_part"}
               THEN nodes \cup {<<ParquetPath(path_save), "file">>}
                          \cup (IF how = "done"
                                THEN {<<f, "file">> : f \in Items(other_files)} ELSE {})
               ELSE nodes,
     meta  |-> IF how = "done" THEN save_metadata(self, meta) ELSE meta]

\* lines 150-175: one data file
ConvertSingle ==
    /\ ld_pc = "organize"
    /\ Len(ld_frame.data_files) = 1
    /\ \E how \in Conversions :
       \E after \in {ConvertedSingle(how, ld_frame.fcm[1], ld_frame.path_save,
                                     ld_frame.other_files, fs_nodes, fs_meta)} :
          /\ fs_nodes' = after.nodes
          /\ fs_meta' = after.meta
          /\ IF how = "done"
             THEN /\ ld_frame' = [ld_frame EXCEPT !.done = 1]
                  /\ ld_ret' = [how |-> "frame",
                                value |-> {ParquetPath(ld_frame.path_save)}]
             ELSE /\ ld_frame' = [ld_frame EXCEPT !.exc = how]
                  /\ UNCHANGED ld_ret
    /\ ld_pc' = "finally"
    /\ UNCHANGED <<ld_call, ld_hist, cm_vars, ps_vars, uc_vars, sd_vars, dd_vars, af_vars, zp_vars>>

\* line 178: several data files: the folder
MakeFolder ==
    /\ ld_pc = "organize"
    /\ Len(ld_frame.data_files) > 1
    /\ fs_nodes' = fs_nodes \cup {<<ld_frame.path_save, "dir">>}
    /\ ld_pc' = "convert"
    /\ UNCHANGED <<fs_meta, ld_call, ld_frame, ld_ret, ld_hist, cm_vars, ps_vars, uc_vars, sd_vars, dd_vars, af_vars, zp_vars>>

\* lines 181-197: one turn of the loop over the data files
ConvertNext ==
    /\ ld_pc = "convert"
    /\ ld_frame.done < Len(ld_frame.data_files)
    /\ \E how \in Conversions :
       \E parquet_file \in {InFolder(ld_frame.path_save,
                                Stem(ld_frame.data_files[ld_frame.done + 1]) \o DotParquet)} :
          /\ fs_nodes' = IF how \in {"done", "write_raises_part"}
                         THEN fs_nodes \cup {<<parquet_file, "file">>} ELSE fs_nodes
          /\ IF how = "done"
             THEN /\ ld_frame' = [ld_frame EXCEPT !.done = @ + 1]
                  /\ ld_pc' = "convert"
             ELSE /\ ld_frame' = [ld_frame EXCEPT !.exc = how]
                  /\ ld_pc' = "finally"
    /\ UNCHANGED <<fs_meta, ld_call, ld_ret, ld_hist, cm_vars, ps_vars, uc_vars, sd_vars, dd_vars, af_vars, zp_vars>>

\* lines 199-206: the other files into the folder, the metadata, the return
FinishFolder ==
    /\ ld_pc = "convert"
    /\ ld_frame.done = Len(ld_frame.data_files)
    /\ fs_nodes' = fs_nodes \cup {<<InFolder(ld_frame.path_save, f), "file">> :
                                     f \in Items(ld_frame.other_files)}
    /\ fs_meta' = save_metadata(ld_frame.fcm[1], fs_meta)
    /\ ld_ret' = [how |-> "frames",
                  value |-> {InFolder(ld_frame.path_save, Stem(f) \o DotParquet) :
                                f \in Items(ld_frame.data_files)}]
    /\ ld_pc' = "finally"
    /\ UNCHANGED <<ld_call, ld_frame, ld_hist, cm_vars, ps_vars, uc_vars, sd_vars, dd_vars, af_vars, zp_vars>>

\* lines 207-210: the temp folder goes, with all that is left in it
Finally ==
    /\ ld_pc = "finally"
    /\ fs_nodes' = {node \in fs_nodes : node[1] # ld_frame.temp_dir[1]}
    /\ IF ld_frame.exc # ""
       THEN /\ ld_pc' = "raised"
            /\ ld_ret' = [how |-> "raised", value |-> {}]
       ELSE /\ ld_pc' = "returned"
            /\ UNCHANGED ld_ret
    /\ UNCHANGED <<fs_meta, ld_call, ld_frame, ld_hist, cm_vars, ps_vars, uc_vars, sd_vars, dd_vars, af_vars, zp_vars>>

LoadNext ==
    \/ LoadFromUrl
    \/ MakeTempDir
    \/ Retrieve
    \/ NoDataFiles
    \/ ConvertSingle
    \/ MakeFolder
    \/ ConvertNext
    \/ FinishFolder
    \/ Finally

SpecLoad == LoadInit /\ [][LoadNext]_vars

-----------------------------------------------------------------------------
(* Properties of load_from_url *)

\* the call before this one returned normally and had the same url, save
\* name and no_data_error
RepeatsNormalCall ==
    /\ ld_hist.prev # None
    /\ ld_hist.prev[1].how \in {"cache", "frame", "frames", "files"}
    /\ ld_hist.prev[1].call.url = ld_call.url
    /\ ld_hist.prev[1].call.save_name = ld_call.save_name
    /\ ld_hist.prev[1].call.no_data_error = ld_call.no_data_error

\* the call has ended
LoadEnded == ld_pc \in {"returned", "raised"}

\* C23 (as the specification states it): after a call load_from_url(url,
\* save_name) that returns normally, with one data file, with several, or
\* with none and no_data_error=False, the next call with the same arguments
\* and force_reload=False finds is_cached() true and returns without a
\* download; with force_reload=True the download is always performed.
C23_RepeatServedFromCache ==
    RepeatsNormalCall =>
        IF ld_call.force_reload
        THEN /\ ld_ret.how # "cache"
             /\ LoadEnded => ld_hist.retrieved = 1
        ELSE /\ ld_hist.cached
             /\ ld_ret.how = "cache"
             /\ ld_hist.retrieved = 0

\* a temp folder stands in the cache directory
TempLeft == \E node \in fs_nodes : StartsWith(node[1], <<"t", "e", "m", "p", "/">>)

\* the manager of the call says "cached" now
CachedNow == is_cached(ld_frame.fcm[1], fs_nodes, fs_meta)

-----------------------------------------------------------------------------
(* api_factory.py: the object APIFactory.wrap returns *)

MaxAccesses == 3

\* the attributes of an APIFactory: those __init__ sets and the methods the
\* class defines (lines 11-101)
FactoryAttributes == {"cache_dir", "__init__", "wrap"}

\* the wrapped object: two methods and a plain value
WrappedCallables == {<<"d", "o", "w", "n", "l", "o", "a", "d">>, <<"g", "e", "o">>}
WrappedValues    == [version |-> PyInt(3)]
VersionAttr      == <<"v", "e", "r", "s", "i", "o", "n">>
WrappedAttributes == WrappedCallables \cup {VersionAttr}
AbsentAttr       == <<"n", "o", "p", "e">>

\* the argument tuples the methods are called with
CallArgs == {<<>>, <<PyInt(1)>>, <<PyStr(<<"1">>)>>}

\* lines 55-61, 99: __getattr__: the attribute itself when it is not
\* callable, cached_method when it is; getattr raises for an absent one
getattr_wrapper(attr_name) ==
    IF attr_name \notin WrappedAttributes
    THEN [kind |-> "raised", value |-> "AttributeError"]
    ELSE IF attr_name \notin WrappedCallables
    THEN [kind |-> "value", value |-> WrappedValues.version]
    ELSE [kind |-> "cached_method", value |-> attr_name]

\* line 66: factory._make_cache_key is looked up on the factory
HasMakeCacheKey == "_make_cache_key" \in FactoryAttributes

\* wrapper.attr_name
GetAttribute ==
    /\ Len(af_log) < MaxAccesses
    /\ \E attr_name \in WrappedAttributes \cup {AbsentAttr} :
          af_log' = Append(af_log, [op |-> "get", attr |-> attr_name, args |-> <<>>,
                                    out |-> getattr_wrapper(attr_name)])
    /\ UNCHANGED <<af_invoked, fs_vars, cm_vars, ld_vars, zp_vars, ps_vars, uc_vars, sd_vars, dd_vars>>

\* wrapper.attr_name(*args): __getattr__ hands out cached_method, and
\* cached_method (lines 64-97) starts by asking the factory for the cache
\* key (line 66).  The class defines no _make_cache_key and nothing sets
\* one, so the lookup raises AttributeError: lines 67-97 (the cache check,
\* the call of the original, write_parquet, save_metadata) are never
\* reached, the original is not invoked and nothing is written.
CallMethod ==
    /\ Len(af_log) < MaxAccesses
    /\ ~HasMakeCacheKey
    /\ \E attr_name \in WrappedCallables, args \in CallArgs :
          af_log' = Append(af_log, [op |-> "call", attr |-> attr_name, args |-> args,
                                   out |-> [kind |-> "raised",
                                            value |-> "AttributeError"]])
    /\ UNCHANGED <<af_invoked, fs_vars, cm_vars, ld_vars, zp_vars, ps_vars, uc_vars, sd_vars, dd_vars>>

WrapInit ==
    /\ IoIdle
    /\ PsIdle
    /\ UcIdle
    /\ SdIdle
    /\ DdIdle

WrapNext ==
    \/ GetAttribute
    \/ CallMethod

SpecWrap == WrapInit /\ [][WrapNext]_vars

-----------------------------------------------------------------------------
(* Properties of the wrapper *)

\* the calls of the log up to the k-th that have the method and the
\* arguments of the k-th
SameCallsUpTo(k) ==
    {j \in 1..k : /\ af_log[j].op = "call"
                  /\ af_log[j].attr = af_log[k].attr
                  /\ af_log[j].args = af_log[k].args}

\* the times the wrapped object's method was invoked with these arguments
InvokedWith(attr, args) ==
    Cardinality({j \in 1..Len(af_invoked) :
                    af_invoked[j].attr = attr /\ af_invoked[j].args = args})

\* C24 (as the specification states it): the object APIFactory.wrap returns
\* exposes the callables of the wrapped object with transparent caching: the
\* first call of a wrapped method with given arguments invokes the original
\* method once, stores the result as parquet and saves the cache metadata,
\* and a second call with the same arguments returns the cached result
\* without invoking it again; attributes that are not callable are returned
\* unchanged.
C24_WrappedCallsAreCached ==
    \A k \in 1..Len(af_log) :
        /\ af_log[k].op = "call" =>
              /\ af_log[k].out.kind = "frame"
              /\ InvokedWith(af_log[k].attr, af_log[k].args) = 1
              /\ \E node \in fs_nodes : EndsWith(node[1], DotParquet)
              /\ fs_meta # NoKeys
        /\ (af_log[k].op = "get" /\ af_log[k].attr = VersionAttr) =>
              af_log[k].out = [kind |-> "value", value |-> PyInt(3)]

-----------------------------------------------------------------------------
(* load.py: LenientUnzip.__call__, invoked from two threads.  The two      *)
(* attributes of the zipfile module are shared by all invocations; each    *)
(* statement that reads or writes one of them is a step of its own.        *)

\* the function an invocation defines: _lenient_decode or _lenient_init of
\* that invocation
Lenient(i) == [fn |-> "lenient", of |-> i]

\* line 224: _original_decode = zipfile.ZipInfo._decodeExtra
SaveDecode(i) ==
    /\ zp_pc[i] = "idle"
    /\ zp_saved' = [zp_saved EXCEPT ![i].decode = Some(zp_decode)]
    /\ zp_pc' = [zp_pc EXCEPT ![i] = "saved_decode"]
    /\ UNCHANGED <<zp_decode, zp_init, fs_vars, cm_vars, ld_vars, af_vars, ps_vars, uc_vars, sd_vars, dd_vars>>

\* line 225: _original_zipfile_init = zipfile.ZipFile.__init__
SaveInit(i) ==
    /\ zp_pc[i] = "saved_decode"
    /\ zp_saved' = [zp_saved EXCEPT ![i].init = Some(zp_init)]
    /\ zp_pc' = [zp_pc EXCEPT ![i] = "saved"]
    /\ UNCHANGED <<zp_decode, zp_init, fs_vars, cm_vars, ld_vars, af_vars, ps_vars, uc_vars, sd_vars, dd_vars>>

\* line 244: zipfile.ZipInfo._decodeExtra = _lenient_decode
PatchDecode(i) ==
    /\ zp_pc[i] = "saved"
    /\ zp_decode' = Lenient(i)
    /\ zp_pc' = [zp_pc EXCEPT ![i] = "patched_decode"]
    /\ UNCHANGED <<zp_init, zp_saved, fs_vars, cm_vars, ld_vars, af_vars, ps_vars, uc_vars, sd_vars, dd_vars>>

\* line 245: zipfile.ZipFile.__init__ = _lenient_init
PatchInit(i) ==
    /\ zp_pc[i] = "patched_decode"
    /\ zp_init' = Lenient(i)
    /\ zp_pc' = [zp_pc EXCEPT ![i] = "patched"]
    /\ UNCHANGED <<zp_decode, zp_saved, fs_vars, cm_vars, ld_vars, af_vars, ps_vars, uc_vars, sd_vars, dd_vars>>

\* lines 247-248: super().__call__(...) returns or raises; either way the
\* finally block is next
Extract(i) ==
    /\ zp_pc[i] = "patched"
    /\ \E outcome \in {"returns", "raises"} :
          zp_pc' = [zp_pc EXCEPT ![i] = outcome]
    /\ UNCHANGED <<zp_decode, zp_init, zp_saved, fs_vars, cm_vars, ld_vars, af_vars, ps_vars, uc_vars, sd_vars, dd_vars>>

\* line 251: zipfile.ZipInfo._decodeExtra = _original_decode
RestoreDecode(i) ==
    /\ zp_pc[i] \in {"returns", "raises"}
    /\ zp_decode' = zp_saved[i].decode[1]
    /\ zp_pc' = [zp_pc EXCEPT ![i] = IF zp_pc[i] = "returns" THEN "restoring_returned"
                                     ELSE "restoring_raised"]
    /\ UNCHANGED <<zp_init, zp_saved, fs_vars, cm_vars, ld_vars, af_vars, ps_vars, uc_vars, sd_vars, dd_vars>>

\* line 252: zipfile.ZipFile.__init__ = _original_zipfile_init, and the
\* invocation is over
RestoreInit(i) ==
    /\ zp_pc[i] \in {"restoring_returned", "restoring_raised"}
    /\ zp_init' = zp_saved[i].init[1]
    /\ zp_pc' = [zp_pc EXCEPT ![i] = IF zp_pc[i] = "restoring_returned" THEN "returned"
                                     ELSE "raised"]
    /\ UNCHANGED <<zp_decode, zp_saved, fs_vars, cm_vars, ld_vars, af_vars, ps_vars, uc_vars, sd_vars, dd_vars>>

UnzipInit ==
    /\ IoIdle
    /\ PsIdle
    /\ UcIdle
    /\ SdIdle
    /\ DdIdle

UnzipNext ==
    \E i \in Invocations :
        \/ SaveDecode(i)
        \/ SaveInit(i)
        \/ PatchDecode(i)
        \/ PatchInit(i)
        \/ Extract(i)
        \/ RestoreDecode(i)
        \/ RestoreInit(i)

SpecUnzip == UnzipInit /\ [][UnzipNext]_vars

-----------------------------------------------------------------------------
(* Properties of LenientUnzip *)

\* the invocation is over, or never began
Over(i) == zp_pc[i] \in {"idle", "returned", "raised"}

\* C29 (as the specification states it): after LenientUnzip.__call__ ends,
\* normally or by exception, zipfile.ZipInfo._decodeExtra and
\* zipfile.ZipFile.__init__ are the library's own functions again; this holds
\* for one invocation and after any interleaving of two invocations that
\* overlap: once all invocations have returned, no lenient patch is left in
\* the module.
C29_PatchesRestored ==
    (\A i \in Invocations : Over(i)) =>
        /\ zp_decode = Original
        /\ zp_init = Original

=============================================================================
